---- MODULE Spec2Model ----
(***************************************************************************)
(* A state-machine model of realm::SlabAlloc (src/src/realm/alloc_slab.hpp) *)
(* and of its DetachGuard.  The header holds the declarations, the data     *)
(* layout, the documented contracts and the inline members; the bodies of   *)
(* the out-of-line members (attach_*, detach, do_alloc, do_free, ...) are   *)
(* modelled from their documentation and from spec.md section 4.1.          *)
(*                                                                         *)
(* Refs and sizes are byte counts.  An address is a pair <<base, offset>>:  *)
(* base is the identity of a mapping or of a heap buffer, 0 is nullptr.     *)
(***************************************************************************)
EXTENDS Integers, Sequences, FiniteSets, TLC

\* ------------------------------------------------------------------ bounds
MaxSlabs == 2
MaxOps == 4
MaxFileSize == 40

\* ------------------------------------------------------- program constants
HeaderSize == 24
FooterSize == 16
flags_SelectBit == 1
flags_ServerSyncMode == 2
default_file_format_version == 3

footer_magic_cookie == "0x3034125237E526C8"
Mnemonic == "T-DB"

AttachModes == {"attach_None", "attach_OwnedBuffer", "attach_UsersBuffer",
                "attach_SharedFile", "attach_UnsharedFile"}
FreeSpaceStates == {"free_space_Clean", "free_space_Dirty", "free_space_Invalid"}

VARIABLES
    m_attach_mode,            \* AttachMode
    m_data,                   \* base address of the attached region, 0 = nullptr
    m_baseline,               \* size of the attached region
    m_file_on_streaming_form, \* BOOLEAN
    m_free_space_state,       \* FeeeSpaceState
    m_slabs,                  \* sequence of Slab [ref_end, addr]
    m_free_space,             \* sequence of Chunk [ref, size]
    m_free_read_only,         \* sequence of Chunk [ref, size]
    mem,                      \* the bytes at m_data: header, footer, length
    disk,                     \* the bytes of the database file
    guard,                    \* the DetachGuard: [alive, m_alloc]
    live,                     \* the chunks the client holds: [ref, size, addr, kind]
    ops,                      \* alloc, realloc, free, reset and remap calls so far
    scenario,                 \* progress of spec.md section 8 scenario 2
    history,                  \* the latest successful attach_*: what it was given and returned
    bytes,                    \* what the client wrote in slab memory: word address -> value
    ret,                      \* the last call and what it returned
    m_args,                   \* the query parser's Arguments: a sequence of Mixed
    result,                   \* the comparison node the parser built from the query string
    query,                    \* the Query compiled from it, or the exception thrown
    set                       \* the elements of a Set column of one object, in order

alloc_vars == <<m_attach_mode, m_data, m_baseline, m_file_on_streaming_form,
                m_free_space_state, m_slabs, m_free_space, m_free_read_only>>
vars == <<m_attach_mode, m_data, m_baseline, m_file_on_streaming_form,
          m_free_space_state, m_slabs, m_free_space, m_free_read_only,
          mem, disk, guard, live, ops, scenario, history, bytes, ret,
          m_args, result, query, set>>
store_vars == <<m_attach_mode, m_data, m_baseline, m_file_on_streaming_form,
                m_free_space_state, m_slabs, m_free_space, m_free_read_only,
                mem, disk, guard, live, ops, scenario, history, bytes, ret>>
parser_vars == <<m_args, result, query, set>>

\* ------------------------------------------------------------- file images
\* The bytes of a file or buffer: its length, the Header fields and the last
\* FooterSize bytes read as a StreamingFooter.
Image(len, t0, t1, mn, ver, flags, ftop, fmagic) ==
    [len |-> len, m_top_ref |-> <<t0, t1>>, m_mnemonic |-> mn,
     m_file_format_version |-> ver, m_flags |-> flags,
     footer_top_ref |-> ftop, footer_magic_cookie |-> fmagic]

NoImage == Image(0, 0, 0, "", 0, 0, 0, "")

\* The database file before the first attach_file has looked at it.
Unopened == Image(-1, 0, 0, "", 0, 0, 0, "")

\* Header::m_flags bit tests.
SelectBit(flags) == (flags \div flags_SelectBit) % 2
ServerSyncBit(flags) == (flags \div flags_ServerSyncMode) % 2

\* SlabAlloc::empty_file_header, with the server-sync bit of the creator.
empty_file_header(server_sync_mode) ==
    Image(HeaderSize, 0, 0, Mnemonic, default_file_format_version,
          IF server_sync_mode THEN flags_ServerSyncMode ELSE 0, 0, "")

\* The top-ref that bit 0 of m_flags selects.
SelectedTopRef_first(data) == data.m_top_ref[1]

SelectedTopRef(data) == data.m_top_ref[SelectBit(data.m_flags) + 1]

\* SlabAlloc::validate_buffer: the header validation algorithm.  The result is
\* [ok, top_ref, streaming]; ok = FALSE stands for throwing InvalidDatabase.
Invalid_Database == [ok |-> FALSE, top_ref |-> 0, streaming |-> FALSE]

validate_buffer(data, server_sync_mode) ==
    IF data.len < HeaderSize THEN Invalid_Database
    ELSE IF data.m_mnemonic # Mnemonic THEN Invalid_Database
    ELSE IF data.m_file_format_version # default_file_format_version
        THEN Invalid_Database
    ELSE IF (ServerSyncBit(data.m_flags) = 1) # server_sync_mode
        THEN Invalid_Database
    ELSE IF SelectedTopRef(data) # 0
        THEN [ok |-> TRUE, top_ref |-> SelectedTopRef(data), streaming |-> FALSE]
    ELSE IF data.len < HeaderSize + FooterSize THEN Invalid_Database
    ELSE IF data.footer_magic_cookie # footer_magic_cookie THEN Invalid_Database
    ELSE [ok |-> TRUE, top_ref |-> data.footer_top_ref, streaming |-> TRUE]

\* ------------------------------------------------------------------ chunks
Chunk(ref, size) == [ref |-> ref, size |-> size]
Slab(ref_end, addr) == [ref_end |-> ref_end, addr |-> addr]

NullAddr == <<0, 0>>

\* The ref at which slab i starts: slabs carry only their end.
SlabStart_first(slabs, baseline, i) == baseline

SlabStart(slabs, baseline, i) == IF i = 1 THEN baseline ELSE slabs[i - 1].ref_end

SlabsEnd(slabs, baseline) ==
    IF slabs = <<>> THEN baseline ELSE slabs[Len(slabs)].ref_end

ref_less_than_slab_ref_end_swapped(ref, slab) == ref <= slab.ref_end

ref_less_than_slab_ref_end(ref, slab) == ref < slab.ref_end

\* SlabAlloc::do_translate.  A ref past the last slab is undefined behaviour in
\* the program; callers here pass refs below SlabsEnd only.
do_translate(ref, data, baseline, slabs) ==
    IF ref < baseline THEN <<data, ref>>
    ELSE LET hits == {i \in 1..Len(slabs) : ref_less_than_slab_ref_end(ref, slabs[i])}
         IN  IF hits = {} THEN NullAddr
             ELSE LET i == CHOOSE k \in hits : \A j \in hits : k <= j
                  IN  <<slabs[i].addr, ref - SlabStart(slabs, baseline, i)>>

\* The address of a slab obtained from the heap: a buffer of its own.
NewSlabAddr(slabs) == 100 + Len(slabs)

RemoveAt(seq, i) == SubSeq(seq, 1, i - 1) \o SubSeq(seq, i + 1, Len(seq))

\* First fit: the position of the first chunk of at least `size` bytes, 0 if none.
FirstFit_last(free, size) ==
    LET fits == {i \in 1..Len(free) : size <= free[i].size}
    IN  IF fits = {} THEN 0 ELSE CHOOSE k \in fits : \A j \in fits : j <= k

FirstFit(free, size) ==
    LET fits == {i \in 1..Len(free) : size <= free[i].size}
    IN  IF fits = {} THEN 0 ELSE CHOOSE k \in fits : \A j \in fits : k <= j

\* What is left of a free chunk once its first `size` bytes are handed out.
SplitRest(c, size) == Chunk(c.ref + size, c.size - size)

\* A free in the file region goes to the read-only free list.
is_read_only_never(ref, baseline) == FALSE

is_read_only(ref, baseline) == ref < baseline

\* Whether alloc, realloc and get_free_read_only may use the free lists.
free_lists_valid_always(state) == TRUE

free_lists_valid(state) == state # "free_space_Invalid"

\* ------------------------------------------------------------------ inputs
AllocSizes == {32, 64, 128}
\* The bytes a new slab holds beyond the request that caused it.
SlabSlacks == {0, 64}

HeaderFormFile == Image(32, 24, 0, Mnemonic, default_file_format_version, 0, 0, "")
StreamingFile ==
    Image(48, 0, 0, Mnemonic, default_file_format_version, 0, 24, footer_magic_cookie)
NoFooterFile == Image(HeaderSize, 0, 0, Mnemonic, default_file_format_version, 0, 0, "")

Files == {NoImage, HeaderFormFile, StreamingFile}
Buffers == {HeaderFormFile, StreamingFile, NoFooterFile}
CoreBuffers == {HeaderFormFile, NoFooterFile}

\* Images for header validation: every combination of a short, a bare, a
\* too-short-for-a-footer and a footed length with good and bad header fields.
HeaderImages ==
    {Image(len, t0, t1, mn, ver, flags, 1024, magic) :
        len \in {16, 24, 32, 40}, t0 \in {0, 24}, t1 \in {0, 32},
        mn \in {Mnemonic, "T-DX"}, ver \in {2, 3}, flags \in 0..3,
        magic \in {footer_magic_cookie, "0x3034125237E526C9"}}
RemapSizes == {n \in 32..MaxFileSize : n % 8 = 0}

\* ------------------------------------------------- the client's live chunks
LiveChunk(ref, size, addr, kind) ==
    [ref |-> ref, size |-> size, addr |-> addr, kind |-> kind]

HasFooter(img) ==
    /\ img.len >= HeaderSize + FooterSize
    /\ SelectedTopRef(img) = 0
    /\ img.footer_magic_cookie = footer_magic_cookie

\* The attached region as the client sees it: the header, nodes of 8 bytes and,
\* on the streaming form, the footer.
FileChunks(img, data) ==
    LET top == IF HasFooter(img) THEN img.len - FooterSize ELSE img.len
    IN  IF img.len < HeaderSize THEN {}
        ELSE {LiveChunk(0, HeaderSize, <<data, 0>>, "header")}
             \cup {LiveChunk(r, 8, <<data, r>>, "node") :
                     r \in {x \in HeaderSize..(top - 8) : x % 8 = 0}}
             \cup (IF HasFooter(img)
                   THEN {LiveChunk(top, FooterSize, <<data, top>>, "footer")}
                   ELSE {})

AllocChunks(chunks) == {c \in chunks : c.kind = "alloc"}

\* ------------------------------------------------------------ what a call returns
NoRet == [op |-> "none", ok |-> TRUE, ref |-> -1, size |-> 0, addr |-> NullAddr,
          val |-> 0, ptr |-> "nullptr", img |-> NoImage]

\* `again`: the attach found the file as the attach_file before it left it.
NoHistory == [op |-> "none", validated |-> FALSE, top_ref |-> 0, img |-> NoImage,
              request |-> "none", again |-> FALSE]

\* ----------------------------------------------- spec.md section 8, scenario 2
ScenarioIdle == <<0, -1, -1, -1>>

ScenarioNext(sc, op, ok, size, ref) ==
    IF op = "alloc" /\ ok /\ sc[1] = 1 /\ size = 64 THEN <<2, ref, -1, -1>>
    ELSE IF op = "alloc" /\ ok /\ sc[1] = 2 /\ size = 128 THEN <<3, sc[2], ref, -1>>
    ELSE IF op = "free" /\ sc[1] = 3 /\ ref = sc[2] THEN <<4, sc[2], sc[3], -1>>
    ELSE IF op = "alloc" /\ ok /\ sc[1] = 4 /\ size = 32 THEN <<5, sc[2], sc[3], ref>>
    ELSE ScenarioIdle

\* ------------------------------------------------------------ query parser
\* realm::DataType of the columns and constants a predicate compares.  The
\* type of a Value<null> is no column's type: it is the one that fails the
\* tests "left_type >= 0" and "right_type >= 0" of the comparison nodes.
DataTypes == {"type_Int", "type_Bool", "type_String", "type_Binary", "type_Timestamp",
              "type_Float", "type_Double", "type_Decimal", "type_ObjectId", "type_UUID"}
type_unknown == "DataType(-1)"
type_LinkList == "type_LinkList"

\* A Mixed argument: null, or a value of a type.
Mixed(type) == [is_null |-> FALSE, type |-> type]
MixedNull == [is_null |-> TRUE, type |-> type_unknown]

\* The columns of m_base_table: one single-valued column of every type, a
\* link and a list of links to the same table, and a list of integers.
m_base_table ==
    [age |-> "type_Int", done |-> "type_Bool", name |-> "type_String",
     data |-> "type_Binary", deleted |-> "type_Timestamp", ratio |-> "type_Float",
     score |-> "type_Double", price |-> "type_Decimal", oid |-> "type_ObjectId",
     uuid |-> "type_UUID", owner |-> "type_Link", friends |-> "type_LinkList",
     scores |-> "type_Int"]
\* ColKey::is_list
ListColumns == {"friends", "scores"}
is_list(col_key) == col_key \in ListColumns
LinkColumns == {col \in DOMAIN m_base_table : m_base_table[col] = "type_Link"}
ValueColumns == {col \in DOMAIN m_base_table : m_base_table[col] \in DataTypes}

\* Subexpr: a column of the table reached over m_link_cols, or a constant.
NoExpr ==
    [class |-> "nullptr", type |-> type_unknown, is_null |-> FALSE, col_key |-> "",
     m_link_cols |-> <<>>]
Columns(col_key, link_cols) ==
    [NoExpr EXCEPT !.class = "Columns", !.type = m_base_table[col_key],
                   !.col_key = col_key, !.m_link_cols = link_cols]
\* Columns<Lst<T>> of a list of values, and Columns<Link> of a link or of a list
\* of links: one class for both.
ColumnsLst(col_key, link_cols) ==
    [NoExpr EXCEPT !.class = "ColumnsLst", !.type = m_base_table[col_key],
                   !.col_key = col_key, !.m_link_cols = link_cols]
ColumnsLink(col_key, link_cols) ==
    [NoExpr EXCEPT !.class = "Columns<Link>", !.type = "type_Link",
                   !.col_key = col_key, !.m_link_cols = link_cols]
Value(type, is_null) == [NoExpr EXCEPT !.class = "Value", !.type = type, !.is_null = is_null]
ConstantStringValue(is_null) ==
    [NoExpr EXCEPT !.class = "ConstantStringValue", !.type = "type_String",
                   !.is_null = is_null]

ObjPropertyBase(e) == e.class = "Columns"
ColumnListBase(e) == e.class = "ColumnsLst"
links_exist(e) == e.m_link_cols # <<>>
has_constant_evaluation(e) == e.class \in {"Value", "ConstantStringValue"}

\* Mixed::data_types_are_comparable
NumericTypes == {"type_Int", "type_Float", "type_Double", "type_Decimal"}
data_types_are_comparable(l_type, r_type) ==
    l_type = r_type \/ {l_type, r_type} \subseteq NumericTypes

\* --- the parse tree
\* ConstantNode [type, text], PropNode [path, identifier] and ValueNode
\* [constant, prop], of which one is set and the other a null pointer.
ConstantTypes == {"NUMBER", "FLOAT", "INFINITY_VAL", "NAN_VAL", "STRING", "BASE64",
                  "TIMESTAMP", "UUID_T", "OID", "NULL_VAL", "TRUE", "FALSE", "ARG"}
NoConstant == [type |-> "nullptr", text |-> ""]
NoProp == [path |-> <<>>, identifier |-> "nullptr"]
ArgTexts == {"$0", "$1"}
ConstantText(type) ==
    CASE type = "NUMBER" -> "30"
      [] type = "FLOAT" -> "1.5"
      [] type = "INFINITY_VAL" -> "inf"
      [] type = "NAN_VAL" -> "NaN"
      [] type = "STRING" -> "'bo'"
      [] type = "BASE64" -> "B64\"Ym8=\""
      [] type = "TIMESTAMP" -> "T100:0"
      [] type = "UUID_T" -> "uuid(3b241101-e2bb-4255-8caf-4136c566a962)"
      [] type = "OID" -> "oid(5f8f2b1c9d3e4a0012345678)"
      [] type = "NULL_VAL" -> "NULL"
      [] type = "TRUE" -> "true"
      [] type = "FALSE" -> "false"
ConstantNodes ==
    {[type |-> t, text |-> ConstantText(t)] : t \in ConstantTypes \ {"ARG"}}
    \cup {[type |-> "ARG", text |-> a] : a \in ArgTexts}
Paths == {<<>>} \cup {<<l>> : l \in LinkColumns}
PropNodes == [path : Paths, identifier : ValueColumns]
ValueNodes ==
    {[constant |-> c, prop |-> NoProp] : c \in ConstantNodes}
    \cup {[constant |-> NoConstant, prop |-> p] : p \in PropNodes}
is_set(node) == node \notin {NoConstant, NoProp}

\* EqualitylNode, RelationalNode and StringOpsNode: [kind, op, case_sensitive,
\* values].  A relational node has no case sensitivity.
EqualityOps == {"EQUAL", "NOT_EQUAL"}
RelationalOps == {"GREATER", "LESS", "GREATER_EQUAL", "LESS_EQUAL"}
StringOps == {"BEGINSWITH", "ENDSWITH", "CONTAINS", "LIKE"}
CompareNode(kind, op, case_sensitive, left, right) ==
    [kind |-> kind, op |-> op, case_sensitive |-> case_sensitive,
     values |-> <<left, right>>]
NodesOf(kind) ==
    LET kind_ops == CASE kind = "Equality" -> EqualityOps
                      [] kind = "Relational" -> RelationalOps
                      [] kind = "StringOps" -> StringOps
        cs == IF kind = "Relational" THEN {TRUE} ELSE BOOLEAN
    IN {CompareNode(kind, op, c, l, r) : op \in kind_ops, c \in cs, l \in ValueNodes,
                                          r \in ValueNodes}
NoNode == CompareNode("nullptr", "", TRUE, [constant |-> NoConstant, prop |-> NoProp],
                      [constant |-> NoConstant, prop |-> NoProp])

\* --- Arguments
ArgTypes == {"type_Int", "type_Timestamp"}
Arguments == [1..2 -> {MixedNull} \cup {Mixed(t) : t \in ArgTypes}]
\* size_t(strtol(text.substr(1))), as an index of the sequence
arg_no(text) == CASE text = "$0" -> 1 [] text = "$1" -> 2
is_argument_null(args, n) == args[n].is_null
type_for_argument(args, n) == args[n].type

\* --- the compilation of the operands
\* What a visit returns: a Subexpr, or the exception it throws.
Compiled(e) == [error |-> "", expr |-> e]
Throws(what) == [error |-> what, expr |-> NoExpr]

\* LinkChain::column: the column col of the table at the end of the chain of
\* links.  A link column is added to the chain.
LinkChain_column(link_cols, col) ==
    IF col \notin DOMAIN m_base_table THEN Throws("has no property")
    ELSE IF is_list(col)
    THEN IF m_base_table[col] = "type_LinkList"
         THEN Compiled(ColumnsLink(col, link_cols \o <<col>>))
         ELSE Compiled(ColumnsLst(col, link_cols))
    ELSE IF m_base_table[col] = "type_Link"
         THEN Compiled(ColumnsLink(col, link_cols \o <<col>>))
         ELSE Compiled(Columns(col, link_cols))

\* PropNode::visit: the column of the table at the end of the path.
PropNode_visit(p) == LinkChain_column(p.path, p.identifier).expr

ConstantNode_visit(c, hint, args) ==
    CASE c.type = "NUMBER" ->
           Compiled(IF hint = "type_Decimal" THEN Value("type_Decimal", FALSE)
                    ELSE Value("type_Int", FALSE))
      [] c.type = "FLOAT" ->
           Compiled(CASE hint = "type_Float" -> Value("type_Float", FALSE)
                      [] hint = "type_Decimal" -> Value("type_Decimal", FALSE)
                      [] OTHER -> Value("type_Double", FALSE))
      [] c.type = "INFINITY_VAL" ->
           IF hint \in {"type_Float", "type_Double", "type_Decimal"}
           THEN Compiled(Value(hint, FALSE))
           ELSE Throws("Infinity not supported")
      [] c.type = "NAN_VAL" ->
           IF hint \in {"type_Float", "type_Double", "type_Decimal"}
           THEN Compiled(Value(hint, FALSE))
           ELSE Throws("REALM_UNREACHABLE")
      [] c.type = "STRING" -> Compiled(ConstantStringValue(FALSE))
      [] c.type = "BASE64" ->
           CASE hint = "type_String" -> Compiled(ConstantStringValue(FALSE))
             [] hint = "type_Binary" -> Compiled(Value("type_Binary", FALSE))
             [] OTHER -> Throws("Unsupported comparison between property and constant value")
      [] c.type = "TIMESTAMP" -> Compiled(Value("type_Timestamp", FALSE))
      [] c.type = "UUID_T" -> Compiled(Value("type_UUID", FALSE))
      [] c.type = "OID" -> Compiled(Value("type_ObjectId", FALSE))
      [] c.type = "NULL_VAL" ->
           CASE hint = "type_String" -> Compiled(ConstantStringValue(TRUE))
             [] hint = "type_Binary" -> Compiled(Value("type_Binary", TRUE))
             [] hint = type_LinkList -> Throws("Cannot compare linklist with NULL")
             [] OTHER -> Compiled(Value(type_unknown, TRUE))
      [] c.type \in {"TRUE", "FALSE"} -> Compiled(Value("type_Bool", FALSE))
      [] c.type = "ARG" ->
           IF is_argument_null(args, arg_no(c.text))
           THEN Compiled(Value(type_unknown, TRUE))
           ELSE LET type == type_for_argument(args, arg_no(c.text))
                IN CASE type = "type_String" -> Compiled(ConstantStringValue(FALSE))
                     [] type \in DataTypes \ {"type_String"} -> Compiled(Value(type, FALSE))
                     [] OTHER -> Throws("Unsupported comparison between property and constant value")

\* ParserDriver::cmp: the two operands of a comparison node, compiled.
\* compiled lists the operand nodes visited, in the order of the visits.
CmpResult(error, left, right, compiled) ==
    [error |-> error, left |-> left, right |-> right, compiled |-> compiled]

two_lists(left, right) ==
    IF ColumnListBase(left) /\ ColumnListBase(right)
    THEN "Ordered comparison between two primitive lists is not implemented yet"
    ELSE ""

\* A hint that says nothing of the other operand.
get_type_unknown(e) == type_unknown
\* Subexpr::get_type of the operand compiled first: the hint for the constant.
get_type(e) == e.type

cmp_late_check(values, args) ==
    LET left_constant == values[1].constant
        right_constant == values[2].constant
        left_prop == values[1].prop
        right_prop == values[2].prop
    IN  IF is_set(right_constant)
        THEN LET left == IF is_set(left_constant)
                         THEN ConstantNode_visit(left_constant, type_unknown, args)
                         ELSE Compiled(PropNode_visit(left_prop))
                 right == ConstantNode_visit(right_constant, left.expr.type, args)
             IN  IF is_set(left_constant)
                 THEN CmpResult("Cannot compare two constants", NoExpr, NoExpr,
                                <<"left_constant", "right_constant">>)
                 ELSE CmpResult(right.error, left.expr, right.expr,
                                <<"left_prop", "right_constant">>)
        ELSE LET right == PropNode_visit(right_prop)
                 left == IF is_set(left_constant)
                         THEN ConstantNode_visit(left_constant, right.type, args)
                         ELSE Compiled(PropNode_visit(left_prop))
             IN  CmpResult(IF left.error # "" THEN left.error
                           ELSE two_lists(left.expr, right),
                           left.expr, right,
                           <<"right_prop", IF is_set(left_constant) THEN "left_constant"
                                           ELSE "left_prop">>)

cmp(values, args) ==
    LET left_constant == values[1].constant
        right_constant == values[2].constant
        left_prop == values[1].prop
        right_prop == values[2].prop
    IN  IF is_set(left_constant) /\ is_set(right_constant)
        THEN CmpResult("Cannot compare two constants", NoExpr, NoExpr, <<>>)
        ELSE IF is_set(right_constant)
        THEN \* Take left first - it cannot be a constant
             LET left == PropNode_visit(left_prop)
                 right == ConstantNode_visit(right_constant, get_type(left), args)
             IN  CmpResult(IF right.error # "" THEN right.error
                           ELSE two_lists(left, right.expr),
                           left, right.expr, <<"left_prop", "right_constant">>)
        ELSE LET right == PropNode_visit(right_prop)
                 left == IF is_set(left_constant)
                         THEN ConstantNode_visit(left_constant, get_type(right), args)
                         ELSE Compiled(PropNode_visit(left_prop))
             IN  CmpResult(IF left.error # "" THEN left.error
                           ELSE two_lists(left.expr, right),
                           left.expr, right,
                           <<"right_prop", IF is_set(left_constant) THEN "left_constant"
                                           ELSE "left_prop">>)

\* --- the Query a comparison node compiles to
\* form "column": a condition of the Query on one column key (method, col_key,
\* the type of the value or "null", case_sensitive); form "Compare": a generic
\* Compare<method>(first, second) expression; form "throw": the exception what;
\* form "empty": the default-constructed Query.  left, right and compiled are
\* what cmp returned.
NoQuery ==
    [form |-> "none", method |-> "", col_key |-> "", value |-> "", case_sensitive |-> TRUE,
     first |-> NoExpr, second |-> NoExpr, what |-> "", left |-> NoExpr, right |-> NoExpr,
     compiled |-> <<>>]
Thrown(what, c) ==
    [NoQuery EXCEPT !.form = "throw", !.what = what, !.left = c.left, !.right = c.right,
                    !.compiled = c.compiled]
Emit(q, c) == [q EXCEPT !.left = c.left, !.right = c.right, !.compiled = c.compiled]
ColumnQuery(method, col_key, value, case_sensitive) ==
    [NoQuery EXCEPT !.form = "column", !.method = method, !.col_key = col_key,
                    !.value = value, !.case_sensitive = case_sensitive]
Compare(Op, first, second) ==
    [NoQuery EXCEPT !.form = "Compare", !.method = Op, !.first = first, !.second = second]
EmptyQuery == [NoQuery EXCEPT !.form = "empty"]

\* ParserDriver::simple_query: the condition of the Query that op names.
QueryMethod(op) ==
    CASE op = "EQUAL" -> "equal"
      [] op = "NOT_EQUAL" -> "not_equal"
      [] op = "GREATER" -> "greater"
      [] op = "LESS" -> "less"
      [] op = "GREATER_EQUAL" -> "greater_equal"
      [] op = "LESS_EQUAL" -> "less_equal"
simple_query(op, col_key, value, case_sensitive) ==
    ColumnQuery(QueryMethod(op), col_key, value, case_sensitive)

\* The types EqualitylNode::visit has a simple_query for: type_ObjectId breaks
\* out of the switch.
EqualitySimpleTypes_no_UUID ==
    {"type_Int", "type_Bool", "type_String", "type_Binary", "type_Timestamp",
     "type_Float", "type_Double", "type_Decimal"}
EqualitySimpleTypes ==
    {"type_Int", "type_Bool", "type_String", "type_Binary", "type_Timestamp",
     "type_Float", "type_Double", "type_Decimal", "type_UUID"}

EqualitylNode_visit(node, args) ==
    LET c == cmp(node.values, args)
        left == c.left
        right == c.right
        left_type == left.type
        right_type == right.type
        op == node.op
        case_sensitive == node.case_sensitive
        prop == left
        generic == IF case_sensitive
                   THEN Compare(IF op = "EQUAL" THEN "Equal" ELSE "NotEqual", right, left)
                   ELSE Compare(IF op = "EQUAL" THEN "EqualIns" ELSE "NotEqualIns",
                                right, left)
    IN  IF c.error # "" THEN Thrown(c.error, c)
        ELSE IF left_type \in DataTypes /\ right_type \in DataTypes
                /\ ~data_types_are_comparable(left_type, right_type)
        THEN Thrown("Unsupported comparison between type", c)
        ELSE IF ObjPropertyBase(prop) /\ ~links_exist(prop)
                /\ has_constant_evaluation(right) /\ left_type = right_type
        THEN LET col_key == prop.col_key
             IN  IF right.is_null
                 THEN Emit(ColumnQuery(QueryMethod(op), col_key, "null", TRUE), c)
                 ELSE IF left_type \in EqualitySimpleTypes
                 THEN Emit(simple_query(op, col_key, left_type,
                                        IF left_type \in {"type_String", "type_Binary"}
                                        THEN case_sensitive ELSE TRUE), c)
                 ELSE Emit(generic, c)
        ELSE Emit(generic, c)

RelationalSimpleTypes_with_String ==
    {"type_Int", "type_String", "type_Timestamp", "type_Float", "type_Double",
     "type_Decimal"}
RelationalSimpleTypes ==
    {"type_Int", "type_Timestamp", "type_Float", "type_Double", "type_Decimal"}
\* The Compare class with the name of the operator itself.
RelationalCompare_same(op) ==
    CASE op = "GREATER" -> "Greater"
      [] op = "LESS" -> "Less"
      [] op = "GREATER_EQUAL" -> "GreaterEqual"
      [] op = "LESS_EQUAL" -> "LessEqual"
\* The Compare class of the generic path: the operands are swapped, and the
\* operator with them.
RelationalCompare(op) ==
    CASE op = "GREATER" -> "Less"
      [] op = "LESS" -> "Greater"
      [] op = "GREATER_EQUAL" -> "LessEqual"
      [] op = "LESS_EQUAL" -> "GreaterEqual"

RelationalNode_visit(node, args) ==
    LET c == cmp(node.values, args)
        left == c.left
        right == c.right
        left_type == left.type
        right_type == right.type
        op == node.op
        prop == left
        generic == Compare(RelationalCompare(op), right, left)
    IN  IF c.error # "" THEN Thrown(c.error, c)
        ELSE IF left_type = "type_UUID"
        THEN Thrown("Unsupported operator", c)
        ELSE IF left_type \notin DataTypes \/ right_type \notin DataTypes
                \/ ~data_types_are_comparable(left_type, right_type)
        THEN Thrown("Unsupported comparison between type", c)
        ELSE IF ObjPropertyBase(prop) /\ ~links_exist(prop)
                /\ has_constant_evaluation(right) /\ left_type = right_type
        THEN IF left_type \in RelationalSimpleTypes
             THEN Emit(simple_query(op, prop.col_key, left_type, TRUE), c)
             ELSE Emit(generic, c)
        ELSE Emit(generic, c)

StringMethod(op) ==
    CASE op = "BEGINSWITH" -> "begins_with"
      [] op = "ENDSWITH" -> "ends_with"
      [] op = "CONTAINS" -> "contains"
      [] op = "LIKE" -> "like"
StringCompare_sensitive(op, case_sensitive) ==
    CASE op = "BEGINSWITH" -> "BeginsWith"
      [] op = "ENDSWITH" -> "EndsWith"
      [] op = "CONTAINS" -> "Contains"
      [] op = "LIKE" -> "Like"
StringCompare(op, case_sensitive) ==
    CASE op = "BEGINSWITH" -> IF case_sensitive THEN "BeginsWith" ELSE "BeginsWithIns"
      [] op = "ENDSWITH" -> IF case_sensitive THEN "EndsWith" ELSE "EndsWithIns"
      [] op = "CONTAINS" -> IF case_sensitive THEN "Contains" ELSE "ContainsIns"
      [] op = "LIKE" -> IF case_sensitive THEN "Like" ELSE "LikeIns"

StringOpsNode_visit(node, args) ==
    LET c == cmp(node.values, args)
        left == c.left
        right == c.right
        right_type == right.type
        op == node.op
        case_sensitive == node.case_sensitive
        prop == left
    IN  IF c.error # "" THEN Thrown(c.error, c)
        ELSE IF right_type # "type_String" /\ right_type # "type_Binary"
        THEN Thrown("Unsupported comparison operator", c)
        ELSE IF ObjPropertyBase(prop) /\ ~links_exist(prop)
                /\ has_constant_evaluation(right) /\ left.type = right_type
        THEN Emit(ColumnQuery(StringMethod(op), prop.col_key, right_type, case_sensitive), c)
        ELSE Emit(Compare(StringCompare(op, case_sensitive), right, left), c)

\* --- aggregates over a link
\* LinkAggrNode [path, link, prop, aggr_op]: path.link.@aggr_op.prop
AggrOps == {"MAX", "MIN", "SUM", "AVG"}
UnknownColumn == "nickname"
LinkAggrNodes ==
    [kind : {"LinkAggr"}, path : {<<>>} \cup {<<l>> : l \in LinkColumns},
     link : DOMAIN m_base_table \cup {UnknownColumn}, prop : DOMAIN m_base_table,
     aggr_op : AggrOps]
\* AggrNode::visit on a sub-column of a link
AggrMethod(type) ==
    CASE type = "MAX" -> "max_of"
      [] type = "MIN" -> "min_of"
      [] type = "SUM" -> "sum_of"
      [] type = "AVG" -> "avg_of"
LinkAggrTypes == {"type_Int", "type_Float", "type_Double", "type_Decimal"}

LinkAggrNode_visit(node) ==
    LET subexpr == LinkChain_column(node.path, node.link)
        link_prop == subexpr.expr.class = "Columns<Link>"
        col_key == node.prop
    IN  IF subexpr.error # ""
        THEN [NoQuery EXCEPT !.form = "throw", !.what = subexpr.error]
        ELSE IF ~link_prop
        THEN [NoQuery EXCEPT !.form = "throw",
                             !.what = "cannot apply to property because it is not a list"]
        ELSE IF m_base_table[col_key] \in LinkAggrTypes
        THEN [NoQuery EXCEPT !.form = "aggregate", !.method = AggrMethod(node.aggr_op),
                             !.col_key = col_key, !.value = m_base_table[col_key],
                             !.left = subexpr.expr]
        ELSE [NoQuery EXCEPT !.form = "throw",
                             !.what = "collection aggregate not supported for type"]

\* driver.result->visit(&driver)
visit(node, args) ==
    CASE node.kind = "Equality" -> EqualitylNode_visit(node, args)
      [] node.kind = "Relational" -> RelationalNode_visit(node, args)
      [] node.kind = "StringOps" -> StringOpsNode_visit(node, args)

\* The parser before a query.
ParserIdle == result = NoNode /\ query = NoQuery

\* -------------------------------------------------------------------- Init
InitAlloc ==
    /\ m_attach_mode = "attach_None"
    /\ m_data = 0
    /\ m_baseline = 0
    /\ m_file_on_streaming_form = FALSE
    /\ m_free_space_state = "free_space_Clean"
    /\ m_slabs = <<>>
    /\ m_free_space = <<>>
    /\ m_free_read_only = <<>>
    /\ mem = NoImage
    /\ guard = [alive |-> FALSE, m_alloc |-> "nullptr"]
    /\ live = {}
    /\ ops = 0
    /\ scenario = ScenarioIdle
    /\ history = NoHistory
    /\ bytes = <<>>
    /\ ret = NoRet

Init == InitAlloc /\ disk = Unopened /\ m_args = <<>> /\ ParserIdle /\ set = <<>>

\* ------------------------------------------------------- inline members
is_attached_wrong_enum == m_attach_mode # "attach_OwnedBuffer"

is_attached == m_attach_mode # "attach_None"

nonempty_attachment == is_attached /\ m_data # 0

get_baseline_total == SlabsEnd(m_slabs, m_baseline)

get_baseline == m_baseline

\* Slabs or free chunks that an earlier attachment left.  Their refs were laid
\* out from that attachment's baseline, and no attach_* rebases them: the model
\* covers the attachments of an allocator that holds none.
LeftOver == m_slabs # <<>> \/ m_free_space # <<>> \/ m_free_read_only # <<>>

\* ------------------------------------------------------------- attachment
\* What a successful attach_* assigns.  Slabs, free lists and the free-space
\* state are not touched.
Attached(mode, data, img, streaming) ==
    /\ m_attach_mode' = mode
    /\ m_data' = data
    /\ m_baseline' = img.len
    /\ m_file_on_streaming_form' = streaming
    /\ mem' = img
    /\ live' = FileChunks(img, data)
    /\ UNCHANGED <<m_free_space_state, m_slabs, m_free_space, m_free_read_only>>

\* Whether attach_file validates the header: unless skip_validate, also when
\* it has just written the header itself.
Validates_existing_only(skip_validate, created) == ~skip_validate /\ ~created

Validates(skip_validate, created) == ~skip_validate

\* attach_file(path, is_shared, read_only, no_create, skip_validate, key,
\* server_sync_mode).  Calling it on an attached allocator is undefined.
attach_file(f, is_shared, read_only, no_create, skip_validate, server_sync_mode) ==
    /\ ~is_attached /\ ~LeftOver
    /\ disk = Unopened \/ f = disk
    /\ read_only => no_create
    /\ LET created == f.len = 0 /\ ~read_only /\ ~no_create
           file == IF created THEN empty_file_header(server_sync_mode) ELSE f
           v == IF Validates(skip_validate, created)
                THEN validate_buffer(file, server_sync_mode)
                ELSE [ok |-> file.len >= HeaderSize, top_ref |-> 0, streaming |-> FALSE]
           request == IF skip_validate THEN "skip_validate"
                      ELSE IF server_sync_mode THEN "sync" ELSE "nosync"
       IN  /\ disk' = file
           /\ ret' = [NoRet EXCEPT !.op = "attach_file", !.ok = v.ok,
                                   !.val = v.top_ref, !.img = file,
                                   !.ptr = request]
           /\ history' = IF v.ok
                         THEN [op |-> "attach_file",
                               validated |-> Validates(skip_validate, created),
                               top_ref |-> v.top_ref, img |-> file,
                               request |-> request,
                               again |-> history.op = "attach_file" /\ f = history.img]
                         ELSE history
           /\ IF v.ok
              THEN Attached(IF is_shared THEN "attach_SharedFile"
                            ELSE "attach_UnsharedFile", 2, file, v.streaming)
              ELSE UNCHANGED <<alloc_vars, mem, live>>
    /\ scenario' = ScenarioIdle
    /\ ops' = 0
    /\ UNCHANGED parser_vars
    /\ UNCHANGED <<guard, bytes>>

\* attach_buffer(data, size): the caller keeps the buffer.
attach_buffer(b) ==
    /\ ~is_attached /\ ~LeftOver
    /\ LET v == validate_buffer(b, FALSE)
       IN  /\ ret' = [NoRet EXCEPT !.op = "attach_buffer", !.ok = v.ok,
                                   !.val = v.top_ref, !.img = b, !.ptr = "nosync"]
           /\ history' = IF v.ok
                         THEN [op |-> "attach_buffer", validated |-> TRUE,
                               top_ref |-> v.top_ref, img |-> b,
                               request |-> "nosync", again |-> FALSE]
                         ELSE history
           /\ IF v.ok
              THEN Attached("attach_UsersBuffer", 1, b, v.streaming)
              ELSE UNCHANGED <<alloc_vars, mem, live>>
    /\ scenario' = ScenarioIdle
    /\ ops' = 0
    /\ UNCHANGED parser_vars
    /\ UNCHANGED <<disk, guard, bytes>>

\* attach_empty(): no backing region, baseline = 0 (spec.md section 4.1).
EmptyBaseline == 0

attach_empty ==
    /\ ~is_attached /\ ~LeftOver
    /\ m_attach_mode' = "attach_OwnedBuffer"
    /\ m_data' = 0
    /\ m_baseline' = EmptyBaseline
    /\ mem' = NoImage
    /\ live' = {}
    /\ scenario' = <<1, -1, -1, -1>>
    /\ ops' = 0
    /\ ret' = [NoRet EXCEPT !.op = "attach_empty"]
    /\ history' = [NoHistory EXCEPT !.op = "attach_empty"]
    /\ UNCHANGED parser_vars
    /\ UNCHANGED <<m_file_on_streaming_form, m_free_space_state, m_slabs,
                   m_free_space, m_free_read_only, disk, guard, bytes>>

own_buffer ==
    /\ m_attach_mode = "attach_UsersBuffer"
    /\ m_data # 0
    /\ m_attach_mode' = "attach_OwnedBuffer"
    /\ ret' = [NoRet EXCEPT !.op = "own_buffer"]
    /\ scenario' = ScenarioIdle
    /\ UNCHANGED parser_vars
    /\ UNCHANGED <<m_data, m_baseline, m_file_on_streaming_form, m_free_space_state,
                   m_slabs, m_free_space, m_free_read_only, mem, disk, guard, live,
                   ops, history, bytes>>

\* What detach() does to the allocator: the mapping or the owned buffer is
\* released and the mode becomes attach_None.  Free space tracking is not reset.
DetachMode(mode) == "attach_None"

Detached ==
    /\ m_attach_mode' = DetachMode(m_attach_mode)
    /\ mem' = IF is_attached THEN NoImage ELSE mem
    /\ UNCHANGED <<m_data, m_baseline, m_file_on_streaming_form, m_free_space_state,
                   m_slabs, m_free_space, m_free_read_only>>

detach ==
    /\ Detached
    /\ ret' = [NoRet EXCEPT !.op = "detach"]
    /\ scenario' = ScenarioIdle
    /\ UNCHANGED parser_vars
    /\ UNCHANGED <<disk, guard, live, ops, history, bytes>>

\* ------------------------------------------------------------- allocation
\* alloc(size): first fit in the mutable free list, splitting a larger chunk,
\* else a new slab at the end of the ref space.  `slack` is what the new slab
\* holds beyond the request; `fail` is where the heap fails, if at all:
\* "oom_slab" before anything is updated, "oom_list" while the free list is
\* updated.  The result is [ok, ref, addr, slabs, free, state]; ok = FALSE
\* stands for throwing.
AllocResult(size, slack, fail, slabs, free, state) ==
    LET thrown == [ok |-> FALSE, ref |-> -1, addr |-> NullAddr,
                   slabs |-> slabs, free |-> free, state |-> state]
        i == FirstFit(free, size)
    IN  IF ~free_lists_valid(state) THEN thrown
        ELSE IF i # 0
        THEN LET c == free[i]
                 rest == SplitRest(c, size)
             IN  [ok |-> TRUE, ref |-> c.ref,
                  addr |-> do_translate(c.ref, m_data, m_baseline, slabs),
                  slabs |-> slabs,
                  free |-> IF rest.size = 0 THEN RemoveAt(free, i)
                           ELSE [free EXCEPT ![i] = rest],
                  state |-> "free_space_Dirty"]
        ELSE IF fail = "oom_slab" THEN thrown
        ELSE LET ref == SlabsEnd(slabs, m_baseline)
                 slab == Slab(ref + size + slack, NewSlabAddr(slabs))
             IN  IF fail = "oom_list" /\ slack > 0
                 THEN [thrown EXCEPT !.slabs = Append(slabs, slab),
                                     !.state = "free_space_Invalid"]
                 ELSE [ok |-> TRUE, ref |-> ref, addr |-> <<slab.addr, 0>>,
                       slabs |-> Append(slabs, slab),
                       free |-> IF slack > 0
                                THEN <<Chunk(ref + size, slack)>> \o free
                                ELSE free,
                       state |-> "free_space_Dirty"]

\* free(ref, addr) that puts the chunk on its list without marking the free
\* lists as changed.
FreeResult_keeps_state(c, fail, free, ro, state, baseline) ==
    IF ~free_lists_valid(state)
    THEN [free |-> free, ro |-> ro, state |-> state]
    ELSE IF fail
    THEN [free |-> free, ro |-> ro, state |-> "free_space_Invalid"]
    ELSE IF is_read_only(c.ref, baseline)
    THEN [free |-> free, ro |-> <<Chunk(c.ref, c.size)>> \o ro, state |-> state]
    ELSE [free |-> <<Chunk(c.ref, c.size)>> \o free, ro |-> ro, state |-> state]

\* free(ref, addr): the chunk goes to the read-only free list when it lies in
\* the file region, else to the mutable one.  do_free does not throw: when the
\* list cannot grow (`fail`) the free-space state becomes Invalid, and in that
\* state the lists are no longer kept.  The result is [free, ro, state].
FreeResult(c, fail, free, ro, state, baseline) ==
    IF ~free_lists_valid(state)
    THEN [free |-> free, ro |-> ro, state |-> state]
    ELSE IF fail
    THEN [free |-> free, ro |-> ro, state |-> "free_space_Invalid"]
    ELSE IF is_read_only(c.ref, baseline)
    THEN [free |-> free, ro |-> <<Chunk(c.ref, c.size)>> \o ro,
          state |-> "free_space_Dirty"]
    ELSE [free |-> <<Chunk(c.ref, c.size)>> \o free, ro |-> ro,
          state |-> "free_space_Dirty"]

AllocFails == {"none", "oom_slab", "oom_list"}
\* Where a realloc fails: in its alloc, or in its free once the alloc is done.
ReallocFails == {<<f, FALSE>> : f \in AllocFails} \cup {<<"none", TRUE>>}

\* Whether the model's bounds leave room for the call.
RoomFor(size) ==
    \/ ~free_lists_valid(m_free_space_state)
    \/ FirstFit(m_free_space, size) # 0
    \/ Len(m_slabs) < MaxSlabs

do_alloc(size, slack, fail) ==
    /\ is_attached
    /\ ops < MaxOps /\ ops' = ops + 1
    /\ RoomFor(size)
    /\ LET a == AllocResult(size, slack, fail, m_slabs, m_free_space,
                            m_free_space_state)
       IN  /\ m_slabs' = a.slabs
           /\ m_free_space' = a.free
           /\ m_free_space_state' = a.state
           /\ live' = IF a.ok
                      THEN live \cup {LiveChunk(a.ref, size, a.addr, "alloc")}
                      ELSE live
           /\ ret' = [NoRet EXCEPT !.op = "alloc", !.ok = a.ok, !.ref = a.ref,
                                   !.size = size, !.addr = a.addr]
           /\ scenario' = ScenarioNext(scenario, "alloc", a.ok, size, a.ref)
    /\ UNCHANGED parser_vars
    /\ UNCHANGED <<m_attach_mode, m_data, m_baseline, m_file_on_streaming_form,
                   m_free_read_only, mem, disk, guard, history, bytes>>

Freeable(c) == c.kind \in {"node", "alloc"}

do_free(c, fail) ==
    /\ is_attached
    /\ ops < MaxOps /\ ops' = ops + 1
    /\ c \in live /\ Freeable(c)
    /\ LET f == FreeResult(c, fail, m_free_space, m_free_read_only,
                           m_free_space_state, m_baseline)
       IN  /\ m_free_space' = f.free
           /\ m_free_read_only' = f.ro
           /\ m_free_space_state' = f.state
    /\ live' = live \ {c}
    /\ ret' = [NoRet EXCEPT !.op = "free", !.ref = c.ref, !.size = c.size]
    /\ scenario' = ScenarioNext(scenario, "free", TRUE, c.size, c.ref)
    /\ UNCHANGED parser_vars
    /\ UNCHANGED <<m_attach_mode, m_data, m_baseline, m_file_on_streaming_form,
                   m_slabs, mem, disk, guard, history, bytes>>

\* The memory word at `words` words past addr.
WordSize == 8

WordAt(addr, words) == <<addr[1], addr[2] + words * WordSize>>

Min(a, b) == IF a < b THEN a ELSE b

\* memory after the first n words at `from` are copied to `to`.  A word that
\* nobody wrote holds an indeterminate value, and so does its copy.
CopyBytes_none(mem_bytes, from, to, n) == mem_bytes

CopyBytes(mem_bytes, from, to, n) ==
    LET target == {WordAt(to, k) : k \in 0..(n - 1)}
        source(a) == <<from[1], a[2] - to[2] + from[2]>>
        written == {a \in target : source(a) \in DOMAIN mem_bytes}
    IN  [a \in (DOMAIN mem_bytes \ target) \cup written |->
            IF a \in target THEN mem_bytes[source(a)] ELSE mem_bytes[a]]

\* The client stores v in word k of a chunk it got from alloc or realloc.
write(c, k, v) ==
    /\ is_attached
    /\ c \in AllocChunks(live)
    /\ k * WordSize < c.size
    /\ bytes' = [a \in DOMAIN bytes \cup {WordAt(c.addr, k)} |->
                    IF a = WordAt(c.addr, k) THEN v ELSE bytes[a]]
    /\ ret' = [NoRet EXCEPT !.op = "write", !.ref = c.ref, !.size = c.size,
                            !.addr = WordAt(c.addr, k), !.val = v]
    /\ scenario' = ScenarioIdle
    /\ UNCHANGED parser_vars
    /\ UNCHANGED <<alloc_vars, mem, disk, guard, live, ops, history>>

\* realloc(old_ref, old_addr, old_size, new_size): a fresh chunk, the first
\* min(old_size, new_size) bytes are copied to it, then the old one is freed.
do_realloc(c, new_size, slack, fail, free_fail) ==
    /\ is_attached
    /\ ops < MaxOps /\ ops' = ops + 1
    /\ c \in live /\ Freeable(c)
    /\ RoomFor(new_size)
    /\ LET a == AllocResult(new_size, slack, fail, m_slabs, m_free_space,
                            m_free_space_state)
           f == IF a.ok
                THEN FreeResult(c, free_fail, a.free, m_free_read_only, a.state,
                                m_baseline)
                ELSE [free |-> a.free, ro |-> m_free_read_only, state |-> a.state]
       IN  /\ m_slabs' = a.slabs
           /\ m_free_space' = f.free
           /\ m_free_read_only' = f.ro
           /\ m_free_space_state' = f.state
           /\ live' = IF a.ok
                      THEN (live \ {c})
                           \cup {LiveChunk(a.ref, new_size, a.addr, "alloc")}
                      ELSE live
           /\ ret' = [NoRet EXCEPT !.op = "realloc", !.ok = a.ok, !.ref = a.ref,
                                   !.size = new_size, !.addr = a.addr,
                                   !.val = c.ref]
           /\ bytes' = IF a.ok
                       THEN CopyBytes(bytes, c.addr, a.addr,
                                      Min(c.size, new_size) \div WordSize)
                       ELSE bytes
    /\ scenario' = ScenarioIdle
    /\ UNCHANGED parser_vars
    /\ UNCHANGED <<m_attach_mode, m_data, m_baseline, m_file_on_streaming_form,
                   mem, disk, guard, history>>

\* get_free_read_only(): throws if the free lists are no longer valid.
get_free_read_only ==
    /\ is_attached
    /\ ret' = [NoRet EXCEPT !.op = "get_free_read_only",
                            !.ok = free_lists_valid(m_free_space_state)]
    /\ scenario' = ScenarioIdle
    /\ UNCHANGED parser_vars
    /\ UNCHANGED <<alloc_vars, mem, disk, guard, live, ops, history, bytes>>

\* One free chunk per slab, covering it.
SlabChunks_single(slabs, baseline) ==
    IF slabs = <<>> THEN <<>>
    ELSE <<Chunk(baseline, SlabsEnd(slabs, baseline) - baseline)>>

SlabChunks(slabs, baseline) ==
    [i \in 1..Len(slabs) |->
        Chunk(SlabStart(slabs, baseline, i),
              slabs[i].ref_end - SlabStart(slabs, baseline, i))]

\* reset_free_space_tracking(): all managed memory except the attached file
\* becomes free space.  The client holds no slab chunk afterwards and holds the
\* whole file region again.  When the list cannot be rebuilt (`fail`) the
\* free-space state is Invalid.
reset_free_space_tracking(fail) ==
    /\ ops < MaxOps /\ ops' = ops + 1
    /\ m_free_read_only' = <<>>
    /\ m_free_space' = IF fail THEN <<>> ELSE SlabChunks(m_slabs, m_baseline)
    /\ m_free_space_state' = IF fail THEN "free_space_Invalid" ELSE "free_space_Clean"
    /\ live' = FileChunks(mem, m_data)
    /\ ret' = [NoRet EXCEPT !.op = "reset_free_space_tracking", !.ok = ~fail]
    /\ scenario' = ScenarioIdle
    /\ UNCHANGED parser_vars
    /\ UNCHANGED <<m_attach_mode, m_data, m_baseline, m_file_on_streaming_form,
                   m_slabs, mem, disk, guard, history, bytes>>

\* ------------------------------------------------------------------- remap
FileModes == {"attach_SharedFile", "attach_UnsharedFile"}

RemapBaseline(baseline, file_size, ok) == IF ok THEN file_size ELSE baseline

Rebase(chunks, delta) ==
    [i \in 1..Len(chunks) |-> Chunk(chunks[i].ref + delta, chunks[i].size)]

RebaseSlabs(slabs, delta) ==
    [i \in 1..Len(slabs) |-> Slab(slabs[i].ref_end + delta, slabs[i].addr)]

\* The file as remapped to file_size bytes: what lies past the old end was
\* written by the commit that made the file grow.
Grown(img, file_size) ==
    IF file_size = img.len THEN img
    ELSE [img EXCEPT !.len = file_size, !.footer_top_ref = 0,
                     !.footer_magic_cookie = ""]

\* remap(file_size): a prefix of file_size bytes of the attached file becomes
\* available; the slab space follows the new baseline.  Called on an
\* allocator attached to a file, in any free-space state; `ok` is whether the
\* mapping succeeds, `moved` whether its address changes.
remap(file_size, ok, moved) ==
    /\ m_attach_mode \in FileModes
    /\ ops < MaxOps /\ ops' = ops + 1
    /\ file_size >= m_baseline
    /\ LET new_baseline == RemapBaseline(m_baseline, file_size, ok)
           delta == new_baseline - m_baseline
           data == IF ok /\ moved THEN 5 - m_data ELSE m_data
           img == IF ok THEN Grown(mem, file_size) ELSE mem
       IN  /\ m_baseline' = new_baseline
           /\ m_data' = data
           /\ m_slabs' = RebaseSlabs(m_slabs, delta)
           /\ m_free_space' = Rebase(m_free_space, delta)
           /\ mem' = img
           /\ disk' = IF ok THEN Grown(disk, file_size) ELSE disk
           /\ live' = FileChunks(img, data) \cup AllocChunks(live)
           /\ ret' = [NoRet EXCEPT !.op = "remap", !.ok = ok, !.size = file_size,
                                   !.val = IF ok /\ moved THEN 1 ELSE 0]
    /\ scenario' = ScenarioIdle
    /\ UNCHANGED parser_vars
    /\ UNCHANGED <<m_attach_mode, m_file_on_streaming_form, m_free_space_state,
                   m_free_read_only, guard, history, bytes>>

\* ------------------------------------------------------ prepare_for_update
ZeroCookie == "0x0000000000000000"

\* do_prepare_for_update: the first top-ref slot of the header takes the
\* footer's top-ref and the footer region is zeroed.
Promoted(img) ==
    [img EXCEPT !.m_top_ref[1] = img.footer_top_ref,
                !.footer_top_ref = 0, !.footer_magic_cookie = ZeroCookie]

\* if (REALM_LIKELY(!m_file_on_streaming_form)) return;
nothing_to_prepare_inverted(streaming) == streaming

nothing_to_prepare(streaming) == ~streaming

\* prepare_for_update(mutable_data, mapping): mutable_data is a writable
\* mapping of the attached file, so the file takes the new bytes too.
prepare_for_update ==
    /\ m_attach_mode \in FileModes
    /\ IF nothing_to_prepare(m_file_on_streaming_form)
       THEN UNCHANGED <<mem, disk, m_file_on_streaming_form>>
       ELSE /\ mem' = Promoted(mem)
            /\ disk' = Promoted(mem)
            /\ m_file_on_streaming_form' = FALSE
    /\ ret' = [NoRet EXCEPT !.op = "prepare_for_update"]
    /\ scenario' = ScenarioIdle
    /\ UNCHANGED parser_vars
    /\ UNCHANGED <<m_attach_mode, m_data, m_baseline, m_free_space_state, m_slabs,
                   m_free_space, m_free_read_only, guard, live, ops, history, bytes>>

\* ------------------------------------------------------------- DetachGuard
\* DetachGuard(SlabAlloc& alloc): m_alloc(&alloc).
DetachGuard_ctor ==
    /\ ~guard.alive
    /\ guard' = [alive |-> TRUE, m_alloc |-> "alloc"]
    /\ ret' = [NoRet EXCEPT !.op = "DetachGuard"]
    /\ UNCHANGED parser_vars
    /\ UNCHANGED <<alloc_vars, mem, disk, live, ops, scenario, history, bytes>>

\* release(): returns m_alloc and forgets it.
DetachGuard_release ==
    /\ guard.alive
    /\ guard' = [guard EXCEPT !.m_alloc = "nullptr"]
    /\ ret' = [NoRet EXCEPT !.op = "release", !.ptr = guard.m_alloc]
    /\ UNCHANGED parser_vars
    /\ UNCHANGED <<alloc_vars, mem, disk, live, ops, scenario, history, bytes>>

\* ~DetachGuard(): if (m_alloc) m_alloc->detach().
dtor_detaches_always(m_alloc) == TRUE

dtor_detaches(m_alloc) == m_alloc # "nullptr"

DetachGuard_dtor ==
    /\ guard.alive
    /\ guard' = [alive |-> FALSE, m_alloc |-> "nullptr"]
    /\ IF dtor_detaches(guard.m_alloc)
       THEN Detached /\ scenario' = ScenarioIdle
       ELSE UNCHANGED <<alloc_vars, mem, scenario>>
    /\ ret' = [NoRet EXCEPT !.op = "~DetachGuard", !.ptr = guard.m_alloc]
    /\ UNCHANGED parser_vars
    /\ UNCHANGED <<disk, live, ops, history, bytes>>

\* -------------------------------------------------------------------- Next
\* One attachment of an allocator to an empty or an in-memory database, and
\* the requests of its client.
Next ==
    \/ attach_empty
    \/ \E b \in CoreBuffers : attach_buffer(b)
    \/ \E size \in AllocSizes, slack \in SlabSlacks, fail \in AllocFails :
         do_alloc(size, slack, fail)
    \/ \E c \in live, fail \in BOOLEAN : do_free(c, fail)
    \/ \E c \in live, size \in AllocSizes, slack \in SlabSlacks, fails \in ReallocFails :
         do_realloc(c, size, slack, fails[1], fails[2])
    \/ \E fail \in BOOLEAN : reset_free_space_tracking(fail)

Spec == Init /\ [][Next]_vars

\* The life cycle of an allocator in every attach mode.  The client's requests
\* are of one size here.
LifeSizes == {32}
LifeSlacks == {64}

AttachStep(files, buffers) ==
    \/ \E f \in files :
         \E is_shared, read_only, no_create, skip_validate, server_sync_mode \in BOOLEAN :
           attach_file(f, is_shared, read_only, no_create, skip_validate,
                       server_sync_mode)
    \/ \E b \in buffers : attach_buffer(b)
    \/ attach_empty
    \/ own_buffer
    \/ detach

NextLife ==
    \/ AttachStep(Files, Buffers)
    \/ \E size \in LifeSizes, slack \in LifeSlacks : do_alloc(size, slack, "none")
    \/ \E c \in live, fail \in BOOLEAN : do_free(c, fail)
    \/ \E c \in live, size \in LifeSizes, slack \in LifeSlacks :
         do_realloc(c, size, slack, "none", FALSE)
    \/ get_free_read_only
    \/ \E fail \in BOOLEAN : reset_free_space_tracking(fail)
    \/ \E file_size \in RemapSizes, ok, moved \in BOOLEAN : remap(file_size, ok, moved)

SpecLife == Init /\ [][NextLife]_vars

\* An owner that holds the allocator through a DetachGuard during its attach
\* sequence: any step may be the last one before the owner's scope is left.
NextGuard ==
    \/ AttachStep(Files, Buffers)
    \/ DetachGuard_ctor
    \/ DetachGuard_release
    \/ DetachGuard_dtor

SpecGuard == Init /\ [][NextGuard]_vars

\* A client that stores into its chunks and reallocates them.  Chunks are of
\* one or two words here.
WordSizes == {WordSize, 2 * WordSize}
WordSlacks == {0, WordSize}
WordValues == {1}

NextRealloc ==
    \/ attach_empty
    \/ attach_buffer(HeaderFormFile)
    \/ \E size \in WordSizes, slack \in WordSlacks : do_alloc(size, slack, "none")
    \/ \E c \in live, k \in 0..1, v \in WordValues : write(c, k, v)
    \/ \E c \in live, size \in WordSizes, slack \in WordSlacks, fails \in ReallocFails :
         do_realloc(c, size, slack, fails[1], fails[2])
    \/ \E c \in live : do_free(c, FALSE)

SpecRealloc == Init /\ [][NextRealloc]_vars

\* Header validation as attach_buffer and attach_file run it, on a database
\* whose bytes are any of HeaderImages or an empty file.
InitHeader ==
    InitAlloc /\ disk \in HeaderImages \cup {NoImage} /\ m_args = <<>> /\ ParserIdle
    /\ set = <<>>

NextHeader ==
    \/ attach_buffer(disk)
    \/ \E is_shared, read_only, no_create, skip_validate, server_sync_mode \in BOOLEAN :
         attach_file(disk, is_shared, read_only, no_create, skip_validate,
                     server_sync_mode)
    \/ prepare_for_update
    \/ detach

SpecHeader == InitHeader /\ [][NextHeader]_vars

\* One query of Table::query on m_base_table: the comparison node of kind that
\* the parser built from the query string, then its compilation with the
\* arguments.
Table_query(kind) ==
    /\ ParserIdle
    /\ \E node \in NodesOf(kind) :
         /\ result' = node
         /\ query' = visit(node, m_args)
    /\ UNCHANGED <<m_args, set, store_vars>>

InitParser == InitAlloc /\ disk = Unopened /\ m_args \in Arguments /\ ParserIdle /\ set = <<>>

NextParser ==
    \/ Table_query("Equality")
    \/ Table_query("Relational")
    \/ Table_query("StringOps")

SpecParser == InitParser /\ [][NextParser]_vars

\* ================================================================== claims
Covers(c, r) == c.ref <= r /\ r < c.ref + c.size

InSeq(seq, r) == Cardinality({i \in 1..Len(seq) : Covers(seq[i], r)})

\* How many chunks, allocated or free, hold the 8 bytes at ref r.
TileCount(r) ==
    Cardinality({c \in live : Covers(c, r)})
    + InSeq(m_free_space, r) + InSeq(m_free_read_only, r)

InRefSpace(c) ==
    /\ 0 <= c.ref /\ 0 < c.size
    /\ c.ref + c.size <= SlabsEnd(m_slabs, m_baseline)

TileRefs == {r \in 0..(SlabsEnd(m_slabs, m_baseline) - 1) : r % 8 = 0}

\* C1: while the allocator is attached and free space tracking is not Invalid,
\* the allocated chunks, the chunks of the mutable free list and the chunks of
\* the read-only free list are pairwise disjoint and cover
\* [0, last_slab.ref_end) exactly: every ref of that range lies in exactly one
\* chunk and no chunk reaches outside it.
C1_RefTile ==
    (is_attached /\ m_free_space_state # "free_space_Invalid") =>
        /\ \A r \in TileRefs : TileCount(r) = 1
        /\ \A c \in live : InRefSpace(c)
        /\ \A i \in 1..Len(m_free_space) : InRefSpace(m_free_space[i])
        /\ \A i \in 1..Len(m_free_read_only) : InRefSpace(m_free_read_only[i])

C1_Witness ==
    /\ is_attached /\ m_free_space_state = "free_space_Dirty"
    /\ Len(m_slabs) = 2
    /\ m_free_space # <<>> /\ m_free_read_only # <<>>
    /\ AllocChunks(live) # {}

\* C2: every (ref, addr) that alloc or realloc returned and the client still
\* holds translates to addr after every step, and no step changes what a ref
\* of the managed ref space translates to, whatever chunks are allocated or
\* freed and whatever slabs are appended meanwhile.
C2_TranslateRoundtrip ==
    [][/\ \A c \in AllocChunks(live') :
            do_translate(c.ref, m_data', m_baseline', m_slabs') = c.addr
       /\ is_attached =>
            \A r \in TileRefs :
                do_translate(r, m_data', m_baseline', m_slabs')
                    = do_translate(r, m_data, m_baseline, m_slabs)]_vars

C2_Witness ==
    /\ ret.op \in {"alloc", "realloc"} /\ ret.ok
    /\ Len(m_slabs) = 2
    /\ \E c, d \in AllocChunks(live) : c.addr[1] # d.addr[1]
    /\ \E c \in AllocChunks(live) : c.ref # ret.ref

\* C3: every ref that alloc or realloc returns is a nonzero multiple of 8, in
\* every attach mode, attach_empty() included.
C3_RefsNonzeroAligned ==
    (ret.op \in {"alloc", "realloc"} /\ ret.ok) =>
        (ret.ref # 0 /\ ret.ref % 8 = 0)

\* C4: while free space tracking is Invalid, every alloc, realloc and
\* get_free_read_only throws and leaves the slabs and both free lists as they
\* were, and the only step that leaves Invalid is a reset_free_space_tracking
\* that completes.
C4_InvalidUntilReset ==
    [][m_free_space_state = "free_space_Invalid" =>
         /\ ret'.op \in {"alloc", "realloc", "get_free_read_only"} =>
              /\ ~ret'.ok
              /\ UNCHANGED <<m_slabs, m_free_space, m_free_read_only>>
         /\ m_free_space_state' # "free_space_Invalid" =>
              (ret'.op = "reset_free_space_tracking" /\ ret'.ok)]_vars

C4_Witness ==
    /\ m_free_space_state = "free_space_Invalid"
    /\ ret.op \in {"alloc", "realloc", "get_free_read_only"} /\ ~ret.ok
    /\ m_slabs # <<>> /\ m_free_space # <<>>

\* The chunks of the mutable free list that can hold `size` bytes.
Fits(size) == {i \in 1..Len(m_free_space) : size <= m_free_space[i].size}

\* C5: a successful alloc(size) is first-fit: when the mutable free list holds
\* a chunk of at least size bytes, the returned ref lies in the first such
\* chunk, what the request does not use of that chunk is still on the mutable
\* free list and no slab is appended; a slab is appended exactly when no chunk
\* is large enough.  After attach_empty, alloc(64) = r1, alloc(128) = r2,
\* free(r1), alloc(32) = r3: r2 > r1 and r1 <= r3 < r1 + 64.
C5_FirstFit ==
    [][/\ (ret'.op = "alloc" /\ ret'.ok) =>
            IF Fits(ret'.size) # {}
            THEN LET i == CHOOSE k \in Fits(ret'.size) :
                              \A j \in Fits(ret'.size) : k <= j
                     c == m_free_space[i]
                 IN  /\ Covers(c, ret'.ref)
                     /\ ret'.ref + ret'.size <= c.ref + c.size
                     /\ \A r \in {x \in c.ref..(c.ref + c.size - 1) : x % 8 = 0} :
                          (r < ret'.ref \/ ret'.ref + ret'.size <= r)
                              => InSeq(m_free_space', r) = 1
                     /\ m_slabs' = m_slabs
            ELSE /\ Len(m_slabs') = Len(m_slabs) + 1
                 /\ SubSeq(m_slabs', 1, Len(m_slabs)) = m_slabs
       /\ scenario'[1] = 5 =>
            /\ scenario'[3] > scenario'[2]
            /\ scenario'[2] <= scenario'[4]
            /\ scenario'[4] < scenario'[2] + 64]_vars

C5_Witness ==
    /\ scenario[1] = 5
    /\ ret.op = "alloc" /\ ret.ok /\ ret.size = 32 /\ ret.ref = scenario[4]
    /\ Len(m_slabs) = 2

Overlap(c, d) == c.ref < d.ref + d.size /\ d.ref < c.ref + c.size

\* seq with chunk c added to it, wherever.
AddedTo(seq, c, after) ==
    \E j \in 1..Len(after) : after[j] = c /\ RemoveAt(after, j) = seq

\* C6: free(ref) with ref < baseline leaves the mutable free list as it was
\* and adds the chunk to the read-only free list; free(ref) with
\* ref >= baseline leaves the read-only free list as it was and adds the chunk
\* to the mutable free list (the lists are kept as long as free space tracking
\* is valid).  No chunk that alloc or realloc returns overlaps a chunk of the
\* read-only free list or lies below the baseline.
C6_FreeTargets ==
    [][/\ ret'.op = "free" =>
            LET c == Chunk(ret'.ref, ret'.size)
                kept == /\ m_free_space_state # "free_space_Invalid"
                        /\ m_free_space_state' # "free_space_Invalid"
            IN  IF ret'.ref < m_baseline
                THEN /\ m_free_space' = m_free_space
                     /\ kept => AddedTo(m_free_read_only, c, m_free_read_only')
                ELSE /\ m_free_read_only' = m_free_read_only
                     /\ kept => AddedTo(m_free_space, c, m_free_space')
       /\ (ret'.op \in {"alloc", "realloc"} /\ ret'.ok) =>
            /\ ret'.ref >= m_baseline
            /\ \A i \in 1..Len(m_free_read_only') :
                 ~Overlap(m_free_read_only'[i], Chunk(ret'.ref, ret'.size))]_vars

C6_Witness ==
    /\ m_free_read_only # <<>>
    /\ ret.op = "free" /\ ret.ref >= m_baseline
    /\ m_free_space # <<>> /\ m_free_space[1] = Chunk(ret.ref, ret.size)

\* C7: alloc, realloc, free and reset_free_space_tracking leave get_baseline()
\* as it was; on an allocator that stays attached it changes only in a
\* successful remap, to the requested size; a failed remap leaves it as it was.
C7_BaselineFrame ==
    [][/\ ret'.op \in {"alloc", "realloc", "free", "reset_free_space_tracking"}
            => get_baseline' = get_baseline
       /\ (is_attached /\ is_attached' /\ get_baseline' # get_baseline)
            => (ret'.op = "remap" /\ ret'.ok)
       /\ ret'.op = "remap" =>
            get_baseline' = IF ret'.ok THEN ret'.size ELSE get_baseline]_vars

C7_Witness ==
    /\ ret.op = "remap" /\ ret.ok /\ ret.size = 40
    /\ get_baseline = 40 /\ mem.len = 40
    /\ m_slabs # <<>> /\ m_free_space # <<>>

\* C8: detach() leaves the allocator detached from any attach mode, changes
\* neither free list nor the free-space state, and changes nothing at all on
\* an allocator that is detached already.
C8_DetachIdempotent ==
    [][ret'.op = "detach" =>
         /\ ~is_attached'
         /\ UNCHANGED <<m_free_space, m_free_read_only, m_free_space_state>>
         /\ ~is_attached => UNCHANGED <<alloc_vars, mem, disk, guard, live, ops>>]_vars

C8_Witness ==
    /\ ret.op = "detach" /\ ~is_attached
    /\ m_free_space # <<>> /\ m_free_read_only # <<>>
    /\ m_free_space_state = "free_space_Dirty"

\* C9: when a DetachGuard on which release() was not called is destroyed, the
\* allocator it was bound to is detached afterwards, whatever the attach steps
\* before did; release() on a bound guard returns that allocator and leaves it
\* alone, and the destruction of a released guard leaves the allocator as it
\* was.
C9_DetachGuard ==
    [][/\ ret'.op = "~DetachGuard" =>
            IF guard.m_alloc = "alloc"
            THEN ~is_attached'
            ELSE UNCHANGED <<alloc_vars, mem>>
       /\ (ret'.op = "release" /\ guard.m_alloc = "alloc") =>
            /\ ret'.ptr = "alloc"
            /\ guard'.alive /\ guard'.m_alloc = "nullptr"
            /\ UNCHANGED <<alloc_vars, mem>>]_vars

C9_Witness ==
    /\ ret.op = "~DetachGuard" /\ ret.ptr = "nullptr"
    /\ ~guard.alive /\ is_attached /\ mem # NoImage

\* The acceptance condition of header validation, on the bytes alone.
Accepts(img, sync) ==
    /\ img.len >= 24
    /\ img.m_mnemonic = "T-DB"
    /\ img.m_file_format_version = default_file_format_version
    /\ (img.m_flags \in {2, 3}) = sync
    /\ \/ img.m_top_ref[(img.m_flags % 2) + 1] # 0
       \/ img.len >= 40 /\ img.footer_magic_cookie = "0x3034125237E526C8"

\* C10: an attach that validates the header succeeds if and only if the length
\* is at least 24, the mnemonic is "T-DB", the version is the supported one,
\* the server-sync bit equals the request and either the top-ref that bit 0 of
\* the flags selects is nonzero or the length is at least 40 and the last 16
\* bytes carry the magic cookie.  It then returns the selected top-ref, or the
\* footer's when the selected one is 0, and the allocator is on streaming form
\* exactly in the latter case; otherwise it throws and nothing is attached.
C10_HeaderValidation ==
    (ret.op \in {"attach_buffer", "attach_file"} /\ ret.ptr # "skip_validate") =>
        LET img == ret.img
            sel == img.m_top_ref[(img.m_flags % 2) + 1]
        IN  /\ ret.ok = Accepts(img, ret.ptr = "sync")
            /\ ret.ok =>
                 /\ is_attached /\ mem = img
                 /\ ret.val = IF sel # 0 THEN sel ELSE img.footer_top_ref
                 /\ m_file_on_streaming_form = (sel = 0)
            /\ ~ret.ok => ~is_attached

C10_Witness ==
    /\ ret.op = "attach_buffer" /\ ret.ok /\ ret.val = 1024
    /\ ret.img.len = 40 /\ ret.img.m_top_ref = <<0, 0>>
    /\ m_file_on_streaming_form

\* C11: while the allocator is attached with validation enabled, exactly one
\* of these holds: the top-ref that the header selects is nonzero, or the
\* allocator is on streaming form; and a validating attach_file that finds the
\* canonical empty header it wrote into an empty file succeeds with top-ref 0.
C11_TopRefXorFooter ==
    /\ (is_attached /\ history.validated) =>
         ((mem.m_top_ref[(mem.m_flags % 2) + 1] # 0) # m_file_on_streaming_form)
    /\ (/\ ret.op = "attach_file"
        /\ ret.img = empty_file_header(ret.ptr = "sync")
        /\ ret.ptr # "skip_validate") =>
         (ret.ok /\ ret.val = 0 /\ is_attached)

\* C12: a prepare_for_update that follows another, or that finds the allocator
\* not on streaming form, or attached without validation, changes neither the
\* bytes of the file nor the allocator; after any prepare_for_update the
\* allocator is not on streaming form.
C12_PrepareIdempotent ==
    [][ret'.op = "prepare_for_update" =>
         /\ ~m_file_on_streaming_form'
         /\ (\/ ret.op = "prepare_for_update"
             \/ ~m_file_on_streaming_form
             \/ ~history.validated) => UNCHANGED <<alloc_vars, mem, disk>>]_vars

C12_Witness ==
    /\ ret.op = "prepare_for_update" /\ history.validated
    /\ is_attached /\ ~m_file_on_streaming_form
    /\ mem.footer_magic_cookie = ZeroCookie /\ mem.m_top_ref[1] = 1024

\* C13: prepare_for_update on a streaming-form file leaves header top_ref[0]
\* equal to the former footer top-ref, the footer region zero and the
\* streaming-form flag cleared; validating the resulting bytes succeeds, not
\* on streaming form, with the top-ref that the attach returned.
C13_Promotion ==
    [][(ret'.op = "prepare_for_update" /\ m_file_on_streaming_form) =>
         /\ mem'.m_top_ref[1] = mem.footer_top_ref
         /\ mem'.footer_top_ref = 0 /\ mem'.footer_magic_cookie = ZeroCookie
         /\ ~m_file_on_streaming_form'
         /\ LET v == validate_buffer(mem', mem'.m_flags \in {2, 3})
            IN  v.ok /\ ~v.streaming /\ v.top_ref = history.top_ref]_vars

C15_ResetResult ==
    [][(ret'.op = "reset_free_space_tracking" /\ ret'.ok) =>
         /\ m_free_read_only' = <<>>
         /\ m_free_space_state' = "free_space_Clean"
         /\ Len(m_free_space') = Len(m_slabs')
         /\ \A i \in 1..Len(m_slabs') :
              \E j \in 1..Len(m_free_space') :
                /\ m_free_space'[j].ref =
                     IF i = 1 THEN m_baseline' ELSE m_slabs'[i - 1].ref_end
                /\ m_free_space'[j].ref + m_free_space'[j].size = m_slabs'[i].ref_end
         /\ \A j \in 1..Len(m_free_space') : m_free_space'[j].ref >= m_baseline']_vars

C15_Witness ==
    /\ ret.op = "reset_free_space_tracking" /\ ret.ok
    /\ m_baseline > 0 /\ Len(m_slabs) = 2 /\ Len(m_free_space) = 2
    /\ AllocChunks(live) = {}

\* The value of a memory word; a word that nobody wrote is indeterminate.
Read(mem_bytes, a) ==
    IF a \in DOMAIN mem_bytes THEN <<"value", mem_bytes[a]>> ELSE <<"indeterminate">>

\* C16: a successful realloc returns a chunk of at least new_size bytes that
\* does not overlap the old chunk and lies at another address; its first
\* min(old_size, new_size) bytes are those of the old chunk; and the old chunk
\* is then on a free list (as long as free space tracking is valid).  Also
\* when new_size <= old_size.
C16_ReallocFresh ==
    [][(ret'.op = "realloc" /\ ret'.ok) =>
         \A old \in live : old.ref = ret'.val =>
            /\ \E c \in live' : c.ref = ret'.ref /\ c.addr = ret'.addr
                                 /\ c.size >= ret'.size
            /\ ~Overlap(old, Chunk(ret'.ref, ret'.size))
            /\ ret'.addr # old.addr
            /\ \A k \in 0..((Min(old.size, ret'.size) \div 8) - 1) :
                 Read(bytes', <<ret'.addr[1], ret'.addr[2] + 8 * k>>)
                    = Read(bytes, <<old.addr[1], old.addr[2] + 8 * k>>)
            /\ m_free_space_state' # "free_space_Invalid" =>
                 \/ \E j \in 1..Len(m_free_space') :
                      m_free_space'[j] = Chunk(old.ref, old.size)
                 \/ \E j \in 1..Len(m_free_read_only') :
                      m_free_read_only'[j] = Chunk(old.ref, old.size)]_vars

C16_Witness ==
    /\ ret.op = "realloc" /\ ret.ok /\ ret.size = 8
    /\ Read(bytes, ret.addr) = <<"value", 1>>
    /\ \E j \in 1..Len(m_free_space) : m_free_space[j] = Chunk(ret.val, 16)
    /\ \E c \in live : c.ref = ret.ref /\ c.size = 8

\* C17: for every ref below the last slab's ref_end, translate(ref) is
\* file_base + ref when ref < baseline and else slab.addr + (ref - slab.start)
\* for the slab whose span holds ref; with baseline = 1024 and one slab of 1024
\* bytes, translate(0) = file_base, translate(1024) = slab0.addr and
\* translate(2047) = slab0.addr + 1023.
C17_Translate ==
    /\ is_attached =>
         \A r \in 0..(SlabsEnd(m_slabs, m_baseline) - 1) :
            LET a == do_translate(r, m_data, m_baseline, m_slabs)
            IN  IF r < m_baseline THEN a = <<m_data, r>>
                ELSE \E i \in 1..Len(m_slabs) :
                       LET start == IF i = 1 THEN m_baseline
                                    ELSE m_slabs[i - 1].ref_end
                       IN  /\ start <= r /\ r < m_slabs[i].ref_end
                           /\ a = <<m_slabs[i].addr, r - start>>
    /\ do_translate(0, 2, 1024, <<Slab(2048, 100)>>) = <<2, 0>>
    /\ do_translate(1024, 2, 1024, <<Slab(2048, 100)>>) = <<100, 0>>
    /\ do_translate(2047, 2, 1024, <<Slab(2048, 100)>>) = <<100, 1023>>

C17_Witness ==
    /\ is_attached /\ m_baseline > 0 /\ Len(m_slabs) = 2
    /\ do_translate(m_slabs[1].ref_end, m_data, m_baseline, m_slabs)
         = <<m_slabs[2].addr, 0>>

\* --- Timestamp constants
\* A long that strtol returns, as hi * 2^32 + lo with lo in the range of
\* int32_t: int32_t(l) keeps lo.
Long(hi, lo) == [hi |-> hi, lo |-> lo]
Sign(l) == IF l.hi # 0 THEN (IF l.hi < 0 THEN -1 ELSE 1)
           ELSE IF l.lo < 0 THEN -1 ELSE IF l.lo > 0 THEN 1 ELSE 0
int32_t(l) == l.lo

\* The text of a TIMESTAMP constant.  T<seconds>:<nanoseconds>, or the
\* readable YYYY-MM-DD@HH:MM:SS[:NANOS], of which the year, the day of the
\* year and the nanoseconds are kept; cnt is what sscanf returns.
TimestampSeconds == -3..3
TimestampNanos == {Long(hi, lo) : hi \in -1..1, lo \in -2..2}
TimestampYears == {1899, 1900, 1969, 1970, 1971}
TimestampTexts ==
    {[form |-> "T", seconds |-> s, nanoseconds |-> n, tm_year |-> 0, cnt |-> 2] :
        s \in TimestampSeconds, n \in TimestampNanos}
    \cup {[form |-> "readable", seconds |-> 0, nanoseconds |-> Long(0, n), tm_year |-> y,
           cnt |-> 7] : y \in TimestampYears, n \in -2..2}
    \cup {[form |-> "readable", seconds |-> 0, nanoseconds |-> Long(0, 0), tm_year |-> y,
           cnt |-> 6] : y \in TimestampYears}

\* platform_timegm, counted in years since 1970 instead of seconds: the code
\* tests the sign of what it returns.
platform_timegm(tm_year) == tm_year - 70

NoTimestamp == [form |-> "none", what |-> "", seconds |-> 0, nanoseconds |-> 0]
Timestamp(seconds, nanoseconds) ==
    [NoTimestamp EXCEPT !.form = "Timestamp", !.seconds = seconds,
                        !.nanoseconds = nanoseconds]
TimestampError(what) == [NoTimestamp EXCEPT !.form = "throw", !.what = what]

get_timestamp_if_valid(seconds, nanoseconds) ==
    LET both_non_negative == seconds >= 0 /\ nanoseconds >= 0
        both_non_positive == seconds <= 0 /\ nanoseconds <= 0
    IN  IF both_non_negative \/ both_non_positive
        THEN Timestamp(seconds, nanoseconds)
        ELSE TimestampError("Invalid timestamp format")

\* ConstantNode::visit, case Type::TIMESTAMP
Timestamp_visit(s) ==
    IF s.form = "T"
    THEN get_timestamp_if_valid(s.seconds, int32_t(s.nanoseconds))
    ELSE LET tm_year == s.tm_year - 1900
             seconds == platform_timegm(tm_year)
             nanoseconds == IF s.cnt = 6 THEN 0 ELSE s.nanoseconds.lo
         IN  IF tm_year < 0
             THEN TimestampError("Conversion of dates before 1900 is not supported.")
             ELSE IF nanoseconds < 0
             THEN TimestampError("The nanoseconds of a Timestamp cannot be negative.")
             ELSE get_timestamp_if_valid(seconds, IF seconds < 0 THEN nanoseconds * (-1)
                                                  ELSE nanoseconds)


\* The compilation of one TIMESTAMP constant.
Timestamp_constant ==
    /\ ParserIdle
    /\ \E s \in TimestampTexts :
         /\ result' = s
         /\ query' = Timestamp_visit(s)
    /\ UNCHANGED <<m_args, set, store_vars>>

SpecTimestamp == Init /\ [][Timestamp_constant]_vars

\* The compilation of one aggregate over a link of m_base_table, as the
\* operand of a predicate.
LinkAggr ==
    /\ ParserIdle
    /\ \E node \in LinkAggrNodes :
         /\ result' = node
         /\ query' = LinkAggrNode_visit(node)
    /\ UNCHANGED <<m_args, set, store_vars>>

SpecAggr == Init /\ [][LinkAggr]_vars

\* ------------------------------------------------------------ backlink paths
\* Texts are sequences of characters; positions count from 0 as in
\* std::string, and npos + 1 wraps to 0 as it does in size_t.
npos == -1
\* std::string::find(ch): the position of the first ch, or npos.
find(str, ch) ==
    IF \E i \in 1..Len(str) : str[i] = ch
    THEN (CHOOSE i \in 1..Len(str) :
            str[i] = ch /\ \A j \in 1..(i - 1) : str[j] # ch) - 1
    ELSE npos
\* std::string::substr(pos, n); n = npos takes the rest of the text.
substr(str, pos, n) ==
    IF n = npos \/ pos + n > Len(str) THEN SubSeq(str, pos + 1, Len(str))
    ELSE SubSeq(str, pos + 1, pos + n)

prefix == <<"c", "l", "a", "s", "s", "_">>
\* strncmp(name.data(), prefix.data(), prefix.size()) == 0
strncmp_prefix(name) ==
    \A i \in 1..Len(prefix) : i <= Len(name) /\ name[i] = prefix[i]
get_printable_table_name(name) ==
    IF Len(name) > Len(prefix) /\ strncmp_prefix(name)
    THEN SubSeq(name, Len(prefix) + 1, Len(name))
    ELSE name

links_prefix == <<"@", "l", "i", "n", "k", "s", ".">>
\* The tables of the parent group and the names of their columns.
Group ==
    (prefix \o <<"P">>) :> {<<"a">>, <<"o">>}
    @@ (prefix \o <<"A">>) :> {<<"o">>, <<"b">>, <<"o", "_", "b">>}
    @@ <<"D">> :> {<<"o">>, <<"P">>}
\* The texts written after "@links.": a table text, a '.', a column text;
\* or a text without any '.'.
TableTexts ==
    DOMAIN Group \cup {prefix, prefix \o <<"X">>, <<"P">>, <<"c", "l", "D">>}
ColumnTexts == {<<"o">>, <<"b">>, <<"a">>, <<"o", ".", "b">>, <<"o", "_", "b">>, <<>>}
BacklinkTexts ==
    {links_prefix \o t \o <<".">> \o c : t \in TableTexts, c \in ColumnTexts}
    \cup {links_prefix \o t : t \in TableTexts}

\* backlink(const Table& origin, ColKey origin_col_key): the chain moves to
\* the origin table through the backlink column.
Backlinked(origin_table, origin_column) ==
    [form |-> "backlink", m_current_table |-> origin_table,
     m_link_cols |-> <<[table |-> origin_table, column |-> origin_column]>>]
NoProperty(column_name, type, links_to) ==
    [form |-> "throw", what |-> "No property", column_name |-> column_name,
     type |-> type, links_to |-> links_to]

\* std::string::find as used to split the text: the last '.', not the first.
split_at_rfind(str, ch) ==
    IF \E i \in 1..Len(str) : str[i] = ch
    THEN (CHOOSE i \in 1..Len(str) :
            str[i] = ch /\ \A j \in (i + 1)..Len(str) : str[j] # ch) - 1
    ELSE npos
split_at(str, ch) == find(str, ch)

\* LinkChain::backlink(path_elem) on a chain whose current table is
\* m_current_table.
LinkChain_backlink(m_current_table, path_elem) ==
    LET table_column_pair == substr(path_elem, 7, npos)
        dot_pos == split_at(table_column_pair, ".")
        table_name == substr(table_column_pair, 0, dot_pos)
        column_name == substr(table_column_pair, dot_pos + 1, npos)
    IN  IF table_name \in DOMAIN Group /\ column_name \in Group[table_name]
        THEN Backlinked(table_name, column_name)
        ELSE NoProperty(column_name, get_printable_table_name(table_name),
                        get_printable_table_name(m_current_table))

\* The resolution of one backlink segment from a chain that stands at a table
\* of the group.
Backlink_segment ==
    /\ ParserIdle
    /\ \E m_current_table \in DOMAIN Group, path_elem \in BacklinkTexts :
         /\ result' = [m_current_table |-> m_current_table, path_elem |-> path_elem]
         /\ query' = LinkChain_backlink(m_current_table, path_elem)
    /\ UNCHANGED <<m_args, set, store_vars>>

SpecBacklink == Init /\ [][Backlink_segment]_vars

\* ---------------------------------------------------------------- Set<T>
\* The values the tests put in a set: null, integers, strings (val is the
\* rank of the text: "Hello" 1, "World" 2) and a float.
SetValue(type, val) == [is_null |-> FALSE, type |-> type, val |-> val]
SetNull == [is_null |-> TRUE, type |-> type_unknown, val |-> 0]
SetValues ==
    {SetNull, SetValue("type_Int", 5), SetValue("type_Int", 10),
     SetValue("type_Int", 123), SetValue("type_String", 1),
     SetValue("type_String", 2), SetValue("type_Float", 56)}
\* The index of a type in the DataType enum.
TypeIndex == [type_Int |-> 0, type_String |-> 2, type_Float |-> 9]
\* The order of a set: null first, then by type index, then by value.
SetLess(a, b) ==
    IF a.is_null \/ b.is_null THEN a.is_null /\ ~b.is_null
    ELSE \/ TypeIndex[a.type] < TypeIndex[b.type]
         \/ a.type = b.type /\ a.val < b.val
\* Set<T>::find: the index of the value, or realm::npos.
Set_find(s, v) ==
    IF \E i \in 1..Len(s) : s[i] = v
    THEN (CHOOSE i \in 1..Len(s) : s[i] = v) - 1
    ELSE npos
\* The index of the first element that is not less than the value.
lower_bound(s, v) == Cardinality({i \in 1..Len(s) : SetLess(s[i], v)})
\* Set<T>::insert without the test for a value that is already there.
Set_inserted_always(s, v) ==
    LET at == lower_bound(s, v)
    IN  SubSeq(s, 1, at) \o <<v>> \o SubSeq(s, at + 1, Len(s))
\* Set<T>::insert: the contents after insert(v).
Set_inserted(s, v) ==
    IF Set_find(s, v) # npos THEN s
    ELSE LET at == lower_bound(s, v)
         IN  SubSeq(s, 1, at) \o <<v>> \o SubSeq(s, at + 1, Len(s))
\* Set<T>::erase: the contents after erase(v).
Set_erased(s, v) ==
    LET at == Set_find(s, v)
    IN  IF at = npos THEN s
        ELSE SubSeq(s, 1, at) \o SubSeq(s, at + 2, Len(s))
SetCall(op, value, before, ndx, erased) ==
    [op |-> op, value |-> value, before |-> before, ndx |-> ndx, erased |-> erased]

\* s.insert(v)
Set_insert ==
    /\ \E v \in SetValues :
         /\ result' = SetCall("insert", v, set, Set_find(set, v), npos)
         /\ set' = Set_inserted(set, v)
    /\ UNCHANGED <<m_args, query, store_vars>>

\* auto ndx = s.find(v); auto erased = s.erase(v);
Set_erase ==
    /\ \E v \in SetValues :
         /\ result' = SetCall("erase", v, set, Set_find(set, v), Set_find(set, v))
         /\ set' = Set_erased(set, v)
    /\ UNCHANGED <<m_args, query, store_vars>>

NextSet == Set_insert \/ Set_erase
SpecSet == Init /\ [][NextSet]_vars

\* ------------------------------------------------------ query parser claims
BothConstants(node) ==
    is_set(node.values[1].constant) /\ is_set(node.values[2].constant)

\* C18: a comparison of two constants is rejected with "Cannot compare two
\* constants", whether the node is an Equality, a Relational or a StringOps
\* node, and neither operand has been compiled when it is rejected.
C18_TwoConstants ==
    (result # NoNode /\ BothConstants(result)) =>
        /\ query.form = "throw"
        /\ query.what = "Cannot compare two constants"
        /\ query.compiled = <<>>

\* "1 == 1" has been rejected.
C18_Witness ==
    /\ result.kind = "Equality"
    /\ result.op = "EQUAL"
    /\ result.values[1].constant.type = "NUMBER"
    /\ result.values[2].constant.type = "NUMBER"
    /\ query.form = "throw"
    /\ query.what = "Cannot compare two constants"

\* The operand i of the node is a single-valued property without link
\* traversal and the other operand a constant, the two compiled to one of the
\* types that have a column-specialized equality.
LinkFreeProperty(v) ==
    is_set(v.prop) /\ v.prop.path = <<>> /\ ~is_list(v.prop.identifier)
IsConstant(v) == is_set(v.constant)
FastEqualityTypes ==
    {"type_Int", "type_Bool", "type_String", "type_Binary", "type_Timestamp",
     "type_Float", "type_Double", "type_Decimal", "type_UUID"}
FastEqualityCase(i) ==
    /\ result.kind = "Equality"
    /\ query.form \notin {"none", "throw"}
    /\ LinkFreeProperty(result.values[i])
    /\ IsConstant(result.values[3 - i])
    /\ query.left.type = query.right.type
    /\ query.left.type \in FastEqualityTypes
\* The Query is the equal or not_equal condition on the property's column key,
\* and no Compare expression.
FastEquality(i) ==
    /\ query.form = "column"
    /\ query.method = (IF result.op = "EQUAL" THEN "equal" ELSE "not_equal")
    /\ query.col_key = result.values[i].prop.identifier
    /\ query.value \in {query.left.type, "null"}

\* C19 as stated: an Equality predicate takes the column-specialized fast
\* path whenever one operand, on either side, is a property without link
\* traversal, the other a constant, and their types match and are one of Int,
\* Bool, String, Binary, Timestamp, Float, Double, Decimal, UUID.
C19_EitherSide == \A i \in 1..2 : FastEqualityCase(i) => FastEquality(i)

\* C19: an Equality predicate takes the column-specialized fast path whenever
\* its left operand is a property without link traversal, its right operand a
\* constant, and their types match and are one of Int, Bool, String, Binary,
\* Timestamp, Float, Double, Decimal, UUID: the Query is then equal or
\* not_equal on the column key and no generic Compare expression.
C19_LeftProperty == FastEqualityCase(1) => FastEquality(1)

\* "age == 30" has compiled to equal(age, 30).
C19_Witness ==
    /\ FastEqualityCase(1)
    /\ result.op = "EQUAL"
    /\ result.values[1].prop.identifier = "age"
    /\ result.values[2].constant.type = "NUMBER"
    /\ query.form = "column"
    /\ query.method = "equal"
    /\ query.col_key = "age"
    /\ query.value = "type_Int"

\* The operand i of the Equality node is a property without link traversal
\* and the other operand a null constant: the literal NULL, or an argument
\* that is bound to null.
NullConstant(v) ==
    /\ is_set(v.constant)
    /\ \/ v.constant.type = "NULL_VAL"
       \/ /\ v.constant.type = "ARG"
          /\ is_argument_null(m_args, arg_no(v.constant.text))
NullEqualityCase(i) ==
    /\ result.kind = "Equality"
    /\ query.form # "none"
    /\ LinkFreeProperty(result.values[i])
    /\ NullConstant(result.values[3 - i])
ColumnVsNull(i) ==
    /\ query.form = "column"
    /\ query.method = (IF result.op = "EQUAL" THEN "equal" ELSE "not_equal")
    /\ query.col_key = result.values[i].prop.identifier
    /\ query.value = "null"

\* C20: an Equality predicate between a property without link traversal and
\* a null constant, a literal NULL or an argument bound to null, compiles to
\* equal(col, null) or not_equal(col, null), whatever the type of the column.
C20_ColumnVsNull == \A i \in 1..2 : NullEqualityCase(i) => ColumnVsNull(i)

\* The same with the property on the left, where the fast path is: with
\* arg 0 = null, "deleted == $0" compiles to equal(deleted, null).
C20_DeletedIsArgument ==
    (/\ NullEqualityCase(1)
     /\ result.op = "EQUAL"
     /\ result.values[1].prop.identifier = "deleted"
     /\ result.values[2].constant = [type |-> "ARG", text |-> "$0"])
    => ColumnVsNull(1)

\* cmp compiled both operands of the node.
BothCompiled == query.left.class # "nullptr" /\ query.right.class # "nullptr"
RelationalCase == result.kind = "Relational" /\ query.form # "none" /\ BothCompiled
UnsupportedOperator == query.form = "throw" /\ query.what = "Unsupported operator"
\* The generic Compare expression of a relational node, nothing thrown.
Mirrored(op) ==
    CASE op = "GREATER" -> "Less"
      [] op = "LESS" -> "Greater"
      [] op = "GREATER_EQUAL" -> "LessEqual"
      [] op = "LESS_EQUAL" -> "GreaterEqual"
GenericRelational == query.form = "Compare" /\ query.method = Mirrored(result.op)
\* A property of type String, Binary or Bool on the left, a constant of the
\* same type on the right.
UnorderedTypes == {"type_String", "type_Binary", "type_Bool"}
UnorderedPropertyCase ==
    /\ RelationalCase
    /\ is_set(result.values[1].prop)
    /\ is_set(result.values[2].constant)
    /\ query.left.type \in UnorderedTypes
    /\ query.right.type = query.left.type

\* C21 as stated: a Relational predicate with an operand of type UUID, on
\* either side, fails with "Unsupported operator"; one on a string, binary or
\* bool property is the generic Compare.
C21_EitherSide ==
    /\ (RelationalCase /\ "type_UUID" \in {query.left.type, query.right.type})
         => UnsupportedOperator
    /\ UnorderedPropertyCase => GenericRelational

\* C21: a Relational predicate whose left operand has type UUID fails with
\* "Unsupported operator" for each of >, <, >=, <=; with an operand of type
\* UUID on the right only it fails with "Unsupported comparison between type";
\* one on a string, binary or bool property with a constant of its type does
\* not fail and is the generic Compare.
C21_UUIDLeft ==
    /\ (RelationalCase /\ query.left.type = "type_UUID") => UnsupportedOperator
    /\ (RelationalCase /\ query.left.type # "type_UUID" /\ query.right.type = "type_UUID")
         => (query.form = "throw" /\ query.what = "Unsupported comparison between type")
    /\ UnorderedPropertyCase => GenericRelational

\* "uuid >= uuid(...)" has been rejected.
C21_Witness ==
    /\ RelationalCase
    /\ result.op = "GREATER_EQUAL"
    /\ result.values[1].prop.identifier = "uuid"
    /\ result.values[2].constant.type = "UUID_T"
    /\ UnsupportedOperator

\* The names of a string operator: the method of Query, the Compare
\* expression, and the Compare expression that ignores case.
StringNames(op) ==
    CASE op = "BEGINSWITH" -> <<"begins_with", "BeginsWith", "BeginsWithIns">>
      [] op = "ENDSWITH" -> <<"ends_with", "EndsWith", "EndsWithIns">>
      [] op = "CONTAINS" -> <<"contains", "Contains", "ContainsIns">>
      [] op = "LIKE" -> <<"like", "Like", "LikeIns">>

\* C22: the Query of a StringOps predicate keeps its operator and its case
\* sensitivity: the generic Compare expression is the Ins variant of the
\* operator exactly when the predicate has the [c] suffix, and the condition
\* on a column key is the operator's method with the predicate's flag.
C22_StringOpsKept ==
    result.kind = "StringOps" =>
        /\ query.form = "Compare" =>
             query.method = StringNames(result.op)[IF result.case_sensitive THEN 2 ELSE 3]
        /\ query.form = "column" =>
             /\ query.method = StringNames(result.op)[1]
             /\ query.case_sensitive = result.case_sensitive
             /\ query.col_key = result.values[1].prop.identifier
        /\ query.form \in {"none", "throw", "Compare", "column"}

\* name CONTAINS[c] 'bo' has compiled to contains(name, 'bo', false), the
\* condition on the column that ignores case.
C22_Witness ==
    /\ result.kind = "StringOps"
    /\ result.op = "CONTAINS"
    /\ ~result.case_sensitive
    /\ result.values[1].prop = [path |-> <<>>, identifier |-> "name"]
    /\ result.values[2].constant.type = "STRING"
    /\ query.form = "column"
    /\ query.method = "contains"
    /\ query.col_key = "name"
    /\ ~query.case_sensitive

\* ---------------------------------------------------------- aggregate claims
\* The link that path.link.@op.prop names is a column of the table that is a
\* list of links; the aggregated column is of a numeric type.
LinkAggrCase == result # NoNode /\ result.kind = "LinkAggr" /\ query.form # "none"
NamesLinkList ==
    /\ result.link \in DOMAIN m_base_table
    /\ m_base_table[result.link] = "type_LinkList"
NumericSubColumn ==
    m_base_table[result.prop] \in {"type_Int", "type_Float", "type_Double", "type_Decimal"}
NotAList ==
    /\ query.form = "throw"
    /\ query.what = "cannot apply to property because it is not a list"
NotSupportedForType ==
    /\ query.form = "throw"
    /\ query.what = "collection aggregate not supported for type"

\* C23: the compilation of a LinkAggregate fails with "cannot apply ... not
\* a list" whenever the named link property is not a list, a single link
\* included, fails with "not supported for type" whenever the aggregated
\* column is not Int, Float, Double or Decimal, and applies the aggregate
\* only otherwise.
C23_LinkAggregate ==
    LinkAggrCase =>
        /\ (result.link \in DOMAIN m_base_table /\ ~NamesLinkList) => NotAList
        /\ (NamesLinkList /\ ~NumericSubColumn) => NotSupportedForType
        /\ query.form = "aggregate" => (NamesLinkList /\ NumericSubColumn)

\* ---------------------------------------------------------- Timestamp claims
TimestampCase(form) == result # NoNode /\ result.form = form /\ query.form # "none"
SameSign(seconds, nanoseconds) ==
    (seconds >= 0 /\ nanoseconds >= 0) \/ (seconds <= 0 /\ nanoseconds <= 0)
SecondsSign(seconds) == IF seconds < 0 THEN -1 ELSE IF seconds > 0 THEN 1 ELSE 0

\* C24: every Timestamp constant has seconds and nanoseconds of the same
\* sign; a T<sec>:<nanos> text with opposite signs is rejected; a readable
\* text with negative nanoseconds or a year before 1900 is rejected, and one
\* before 1970 gets its nanoseconds negated.
C24_TimestampSigns ==
    /\ (result # NoNode /\ query.form = "Timestamp")
         => SameSign(query.seconds, query.nanoseconds)
    /\ (TimestampCase("T") /\ SecondsSign(result.seconds) * Sign(result.nanoseconds) = -1)
         => query.form = "throw"
    /\ TimestampCase("readable") =>
         /\ (result.cnt = 7 /\ result.nanoseconds.lo < 0) => query.form = "throw"
         /\ result.tm_year < 1900 => query.form = "throw"
         /\ (query.form = "Timestamp" /\ query.seconds < 0 /\ result.cnt = 7)
              => query.nanoseconds = -result.nanoseconds.lo
\* ------------------------------------------------------------------- C25
BacklinkCase == result # NoNode /\ "path_elem" \in DOMAIN result
\* The text after "@links." and its parts around the first '.'.
BacklinkText == SubSeq(result.path_elem, Len(links_prefix) + 1, Len(result.path_elem))
Dots(text) == {i \in 1..Len(text) : text[i] = "."}
FirstDot(text) == CHOOSE i \in Dots(text) : \A j \in Dots(text) : i <= j
BacklinkTable == SubSeq(BacklinkText, 1, FirstDot(BacklinkText) - 1)
BacklinkColumn ==
    SubSeq(BacklinkText, FirstDot(BacklinkText) + 1, Len(BacklinkText))
\* A name without its "class_" prefix; a name that is nothing but the prefix
\* has no prefix to lose.
Stripped(name) ==
    IF \E rest \in {SubSeq(name, i, Len(name)) : i \in 2..Len(name)} :
         name = prefix \o rest
    THEN SubSeq(name, Len(prefix) + 1, Len(name))
    ELSE name
BacklinkResolves ==
    /\ BacklinkTable \in DOMAIN Group
    /\ BacklinkColumn \in Group[BacklinkTable]

\* C25: a backlink segment "@links.T.C" is split at the first '.' after
\* "@links." into the table T and the column C. When T is not a table of the
\* group or C is not a column of T, the resolution fails with "No property",
\* naming C and the tables T and the current table without their "class_"
\* prefix; the chain is extended, to T through C, only when both are found.
C25_Backlink ==
    (BacklinkCase /\ Dots(BacklinkText) # {}) =>
        IF BacklinkResolves
        THEN query = Backlinked(BacklinkTable, BacklinkColumn)
        ELSE /\ query.form = "throw"
             /\ query.what = "No property"
             /\ query.column_name = BacklinkColumn
             /\ query.type = Stripped(BacklinkTable)
             /\ query.links_to = Stripped(result.m_current_table)
\* A text with two dots whose table is in the group and loses its prefix in
\* the message, while the rest of the text is not one of its columns.
C25_Witness ==
    /\ BacklinkCase
    /\ Cardinality(Dots(BacklinkText)) = 2
    /\ BacklinkTable \in DOMAIN Group
    /\ query.form = "throw"
    /\ query.type # BacklinkTable
    /\ query.type = Stripped(BacklinkTable)
\* ------------------------------------------------------------------- C26
SetCase(op) == result # NoNode /\ "before" \in DOMAIN result /\ result.op = op
Occurrences(s, v) == Cardinality({i \in 1..Len(s) : s[i] = v})
\* null before every value, then the types in the order of their index.
SetOrdered ==
    \A i, j \in 1..Len(set) :
        i < j => /\ ~set[j].is_null
                 /\ (~set[i].is_null =>
                        \/ TypeIndex[set[i].type] < TypeIndex[set[j].type]
                        \/ /\ set[i].type = set[j].type
                           /\ set[i].val < set[j].val)

C27_SlabsOrdered ==
    \A i \in 1..Len(m_slabs) :
        /\ m_baseline < m_slabs[i].ref_end
        /\ \A j \in 1..Len(m_slabs) : i < j => m_slabs[i].ref_end < m_slabs[j].ref_end
        /\ LET start == IF i = 1 THEN m_baseline ELSE m_slabs[i - 1].ref_end
           IN  /\ start < m_slabs[i].ref_end
               /\ do_translate(start, m_data, m_baseline, m_slabs)
                    = <<m_slabs[i].addr, 0>>
\* A slab behind a baseline that a remap has moved: its span has moved with
\* the baseline.
C27_Witness ==
    /\ ret.op = "remap" /\ ret.ok
    /\ Len(m_slabs) = 1
    /\ m_baseline = ret.size /\ history.img.len < m_baseline
    /\ m_slabs[1].ref_end = m_baseline + 96
\* ------------------------------------------------------------------- C28
\* C28: the free-space state changes only in these ways. From Clean, an alloc
\* that succeeds leaves it Dirty, and so does a free unless the free list
\* cannot be updated; it becomes Invalid only in an alloc, realloc, free or
\* reset_free_space_tracking that fails while it updates the free lists; it
\* becomes Dirty only from Clean; and it becomes Clean only in a
\* reset_free_space_tracking that completes: no alloc, realloc, free, detach
\* or remap takes it from Dirty or Invalid to Clean.
C28_Transitions ==
    [][LET s == m_free_space_state
           t == m_free_space_state'
           op == ret'.op
       IN  /\ (s = "free_space_Clean" /\ op = "alloc" /\ ret'.ok) =>
                 t = "free_space_Dirty"
           /\ (s = "free_space_Clean" /\ (op = "free" \/ (op = "realloc" /\ ret'.ok))) =>
                 t \in {"free_space_Dirty", "free_space_Invalid"}
           /\ (t = "free_space_Invalid" /\ s # t) =>
                 /\ op \in {"alloc", "realloc", "free", "reset_free_space_tracking"}
                 /\ op \in {"alloc", "reset_free_space_tracking"} => ~ret'.ok
           /\ (t = "free_space_Dirty" /\ s # t) =>
                 /\ s = "free_space_Clean"
                 /\ op \in {"alloc", "realloc", "free"}
           /\ (t = "free_space_Clean" /\ s # t) =>
                 (op = "reset_free_space_tracking" /\ ret'.ok)
           /\ (s # "free_space_Clean"
                 /\ op \in {"alloc", "realloc", "free", "detach", "remap"}) =>
                 t = s \/ t = "free_space_Invalid"]_vars
\* A remap that found the free-space state Dirty and left it so.
C28_Witness ==
    /\ ret.op = "remap" /\ ret.ok
    /\ m_free_space_state = "free_space_Dirty"
    /\ m_slabs # <<>>
\* ------------------------------------------------------------------- C29
\* Whether the expression e is what the operand v of a predicate compiles to:
\* the column that a property names, or a constant value.
CompiledFrom(v, e) ==
    IF is_set(v.prop)
    THEN /\ e.class \in {"Columns", "ColumnsLst"}
         /\ e.col_key = v.prop.identifier
         /\ e.m_link_cols = v.prop.path
    ELSE e.class \in {"Value", "ConstantStringValue"}
\* The Compare class that has the name of the predicate's own operator.
SameOperator(node) ==
    CASE node.kind = "Equality" ->
           IF node.op = "EQUAL"
           THEN (IF node.case_sensitive THEN "Equal" ELSE "EqualIns")
           ELSE (IF node.case_sensitive THEN "NotEqual" ELSE "NotEqualIns")
      [] node.kind = "StringOps" ->
           StringNames(node.op)[IF node.case_sensitive THEN 2 ELSE 3]
      [] node.kind = "Relational" ->
           CASE node.op = "GREATER" -> "Greater"
             [] node.op = "LESS" -> "Less"
             [] node.op = "GREATER_EQUAL" -> "GreaterEqual"
             [] node.op = "LESS_EQUAL" -> "LessEqual"
\* The operator that holds of (b, a) exactly when the given one holds of (a, b).
Converse(Op) ==
    CASE Op = "Greater" -> "Less"
      [] Op = "Less" -> "Greater"
      [] Op = "GreaterEqual" -> "LessEqual"
      [] Op = "LessEqual" -> "GreaterEqual"

\* C29: a generic Compare expression has the predicate's operands swapped:
\* its first operand is the predicate's right one and its second the
\* predicate's left one. For a Relational predicate the operator is mirrored
\* with them (> gives Compare<Less>, < Greater, >= LessEqual, <= GreaterEqual);
\* for Equality and StringOps the operator is the predicate's own.
C29_SwappedOperands ==
    query.form = "Compare" =>
        /\ CompiledFrom(result.values[2], query.first)
        /\ CompiledFrom(result.values[1], query.second)
        /\ query.first = query.right /\ query.second = query.left
        /\ query.method = IF result.kind = "Relational"
                          THEN Converse(SameOperator(result))
                          ELSE SameOperator(result)
\* "name > 'bo'" has compiled to Compare<Less>('bo', name).
C29_Witness ==
    /\ result.kind = "Relational" /\ result.op = "GREATER"
    /\ result.values[1].prop = [path |-> <<>>, identifier |-> "name"]
    /\ result.values[2].constant.type = "STRING"
    /\ query.form = "Compare" /\ query.method = "Less"
    /\ query.first.class = "ConstantStringValue"
    /\ query.second = Columns("name", <<>>)
\* ------------------------------------------------------------------- C30
ComparisonCase == result # NoNode /\ "values" \in DOMAIN result /\ query.form # "none"
ConstantSides == {i \in 1..2 : is_set(result.values[i].constant)}
SideName(i) == IF i = 1 THEN "left" ELSE "right"
Operand(i) == IF i = 1 THEN query.left ELSE query.right
TwoListsError == "Ordered comparison between two primitive lists is not implemented yet"

\* C30: when exactly one operand of a comparison is a constant, cmp compiles
\* the other operand first and then the constant, with the type of the other
\* operand as the hint, on whichever side the constant is; each compiled
\* operand is returned in the position of the operand it comes from. When
\* both compiled operands are columns of lists of values, cmp fails.
C30_ConstantLast ==
    ComparisonCase =>
        /\ Cardinality(ConstantSides) = 1 =>
             LET k == CHOOSE i \in ConstantSides : TRUE
                 p == 3 - k
                 hinted == ConstantNode_visit(result.values[k].constant,
                                              Operand(p).type, m_args)
             IN  /\ query.compiled = <<SideName(p) \o "_prop", SideName(k) \o "_constant">>
                 /\ CompiledFrom(result.values[p], Operand(p))
                 /\ IF hinted.error # ""
                    THEN query.form = "throw" /\ query.what = hinted.error
                    ELSE Operand(k) = hinted.expr
        /\ ConstantSides = {} =>
             /\ CompiledFrom(result.values[1], query.left)
             /\ CompiledFrom(result.values[2], query.right)
             /\ (query.left.class = "ColumnsLst" /\ query.right.class = "ColumnsLst") =>
                    (query.form = "throw" /\ query.what = TwoListsError)
\* "1 == price": the property on the right was compiled first and the number
\* on the left then became a Decimal.
C30_Witness ==
    /\ ComparisonCase
    /\ result.values[1].constant.type = "NUMBER"
    /\ result.values[2].prop = [path |-> <<>>, identifier |-> "price"]
    /\ query.compiled = <<"right_prop", "left_constant">>
    /\ query.left = Value("type_Decimal", FALSE)
    /\ query.right = Columns("price", <<>>)

====
